---- MODULE Spec2Model ----
(***************************************************************************)
(* The debate orchestration engine of the LLM debate system:              *)
(* LLMDebateSystem.conduct_debate (main.py) calling                        *)
(* DebateWorkflow.conduct_debate (debate_workflow.py), the LangGraph state *)
(* machine built by _create_graph, the debater fan-out through             *)
(* asyncio.gather, and ConsensusEngine.analyze_consensus.                  *)
(*                                                                         *)
(* Similarities are kept in thousandths (0.85 is 850, 1.0 is 1000).        *)
(* A response text is a small integer; the embedding model is an external  *)
(* collaborator and is represented by the fixed table PairSim.             *)
(***************************************************************************)
EXTENDS Integers, Sequences, FiniteSets, TLC

\* ---------------------------------------------------------------- bounds
\* largest max_rounds argument a caller passes (0 stands for None / omitted)
MaxRoundsArg == 2
\* number of distinct response texts the inference service can return
NumTexts == 2
\* number of operations applied to a shared context on its own
MaxContextOps == 4
\* largest number of responses handed to the consensus engine on its own
MaxResponses == 3
\* number of conduct_debate calls made one after another on the workflow
MaxRuns == 2
\* number of debates started through an API
MaxJobs == 2

\* ------------------------------------------------------ program constants
\* Config.MAX_ROUNDS
MAX_ROUNDS == 3
\* Config.CONSENSUS_THRESHOLD (0.85, in thousandths)
CONSENSUS_THRESHOLD == 850
\* len(Config.DEBATER_MODELS)
NumDebaters == 3

Debaters == 1..NumDebaters
Texts == 1..NumTexts
\* a response without a word that TfidfVectorizer(stop_words='english') keeps:
\* the empty string, or English stop words only
EmptyText == 0

\* DebateStatus
INITIALIZING == "initializing"
IN_PROGRESS == "in_progress"
CONSENSUS_REACHED == "consensus_reached"
MAX_ROUNDS_EXCEEDED == "max_rounds_exceeded"
ERROR == "error"

DebateStatus == {INITIALIZING, IN_PROGRESS, CONSENSUS_REACHED, MAX_ROUNDS_EXCEEDED, ERROR}
TerminalStatus == {CONSENSUS_REACHED, MAX_ROUNDS_EXCEEDED, ERROR}

\* the nodes added to the StateGraph, the two awaits on asyncio.gather inside
\* the collection nodes, and the END marker
GraphNodes ==
    {"initialize_debate", "collect_initial_responses", "gather_initial",
     "analyze_consensus", "generate_feedback", "collect_rebuttals",
     "gather_rebuttals", "finalize_debate", "handle_max_rounds"}

\* ------------------------------------------------------- response texts
\* What the text-processing code looks at in a sentence: whether it is longer
\* than 20 characters, which of the concept patterns it contains, and which of
\* the contradiction words.  A sentence is named by a string; equal names are
\* equal strings.
SentenceInfo(s) ==
    CASE s = "s1" -> [long |-> TRUE, patterns |-> {"key factor", "significant"},
                      words |-> {"support"}]
      [] s = "s2" -> [long |-> TRUE, patterns |-> {}, words |-> {}]
      [] s = "s3" -> [long |-> TRUE, patterns |-> {}, words |-> {"oppose"}]
      [] OTHER    -> [long |-> FALSE, patterns |-> {"essential"}, words |-> {}]

\* the sentences of a response text, in order; text 3 repeats a sentence of text 1
TextContent(t) ==
    CASE t = EmptyText -> <<>>
      [] t = 1 -> <<"s1", "s2">>
      [] t = 2 -> <<"s3">>
      [] OTHER -> <<"s1", "s4">>

\* ConsensusEngine.extract_key_points: the sentences longer than 20 characters,
\* at most 5 (the texts here carry no bullet points)
extract_key_points(t) ==
    LET points == SelectSeq(TextContent(t), LAMBDA s : SentenceInfo(s).long)
    IN  SubSeq(points, 1, IF Len(points) < 5 THEN Len(points) ELSE 5)

\* contradiction_patterns of ConsensusEngine.identify_disagreement_areas
contradiction_patterns ==
    << [positive |-> {"agree", "support", "favor"},
        negative |-> {"disagree", "oppose", "against"}, topic |-> "agree"],
       [positive |-> {"yes", "correct", "true"},
        negative |-> {"no", "incorrect", "false"}, topic |-> "yes"],
       [positive |-> {"beneficial", "positive", "good"},
        negative |-> {"harmful", "negative", "bad"}, topic |-> "beneficial"],
       [positive |-> {"increase", "more", "higher"},
        negative |-> {"decrease", "less", "lower"}, topic |-> "increase"] >>

\* the contradiction words found in the joined key points of a text
PointWords(t) ==
    UNION {SentenceInfo(extract_key_points(t)[i]).words :
             i \in 1..Len(extract_key_points(t))}

\* ConsensusEngine.identify_disagreement_areas: one "Contradiction on <topic>:
\* <names> vs <names>" string for each pattern pair that has a response on
\* either side
RECURSIVE disagreements_from(_, _)
disagreements_from(responses, k) ==
    IF k > Len(contradiction_patterns) THEN <<>>
    ELSE LET pat == contradiction_patterns[k]
             pos_responses ==
                 SelectSeq(responses,
                           LAMBDA r : PointWords(r.response) \cap pat.positive # {})
             neg_responses ==
                 SelectSeq(responses,
                           LAMBDA r : PointWords(r.response) \cap pat.negative # {})
             names(rs) == [i \in 1..Len(rs) |-> rs[i].debater_name]
             here == IF pos_responses # <<>> /\ neg_responses # <<>>
                     THEN << [topic |-> pat.topic, pos |-> names(pos_responses),
                              neg |-> names(neg_responses)] >>
                     ELSE <<>>
         IN here \o disagreements_from(responses, k + 1)

identify_disagreement_areas(responses) == disagreements_from(responses, 1)

\* concept_patterns of DebaterAgent._update_mcp_context
concept_patterns ==
    <<"the main point is", "key factor", "important aspect", "crucial element",
      "significant", "primary reason", "fundamental", "essential">>

\* the potential_concepts of DebaterAgent._update_mcp_context: for each
\* pattern in turn, every sentence that contains it
RECURSIVE potential_concepts_from(_, _)
potential_concepts_from(t, k) ==
    IF k > Len(concept_patterns) THEN <<>>
    ELSE SelectSeq(TextContent(t),
                   LAMBDA s : concept_patterns[k] \in SentenceInfo(s).patterns)
         \o potential_concepts_from(t, k + 1)

\* the same list for every text there is, computed once
potential_concepts_of == [t \in Texts \cup {EmptyText} |-> potential_concepts_from(t, 1)]

potential_concepts(t) == potential_concepts_of[t]

\* -------------------------------------------------------- shared context
\* MCPContext(): the fields the workflow run reads or writes (the conversation
\* log is kept by the specification of the shared workflow object below)
MCPContext ==
    [shared_knowledge |-> <<>>, key_concepts |-> <<>>,
     agreed_facts |-> <<>>, disputed_points |-> <<>>]

\* x in list
Contains(list, x) == \E i \in 1..Len(list) : list[i] = x

\* add_agreed_fact that appends without looking
add_agreed_fact_unchecked(ctx, fact) ==
    [ctx EXCEPT !.agreed_facts = Append(@, fact)]

\* MCPContext.add_agreed_fact
add_agreed_fact(ctx, fact) ==
    IF Contains(ctx.agreed_facts, fact) THEN ctx
    ELSE [ctx EXCEPT !.agreed_facts = Append(@, fact)]

\* MCPContext.add_disputed_point
add_disputed_point(ctx, point) ==
    IF Contains(ctx.disputed_points, point) THEN ctx
    ELSE [ctx EXCEPT !.disputed_points = Append(@, point)]

\* the "add unique concepts" loop of DebaterAgent._update_mcp_context
RECURSIVE add_concepts(_, _)
add_concepts(ctx, concepts) ==
    IF concepts = <<>> THEN ctx
    ELSE add_concepts(IF Contains(ctx.key_concepts, Head(concepts)) THEN ctx
                      ELSE [ctx EXCEPT !.key_concepts = Append(@, Head(concepts))],
                      Tail(concepts))

\* DebaterAgent._update_mcp_context on the fields kept here
update_mcp_context(ctx, t) == add_concepts(ctx, potential_concepts(t))

\* the loops of OrchestratorAgent.analyze_responses_and_provide_feedback
RECURSIVE add_agreed_facts(_, _)
add_agreed_facts(ctx, points) ==
    IF points = <<>> THEN ctx
    ELSE add_agreed_facts(add_agreed_fact(ctx, Head(points)), Tail(points))

RECURSIVE add_disputed_points(_, _)
add_disputed_points(ctx, points) ==
    IF points = <<>> THEN ctx
    ELSE add_disputed_points(add_disputed_point(ctx, Head(points)), Tail(points))

\* the key points of all responses, response by response
RECURSIVE all_key_points(_)
all_key_points(responses) ==
    IF responses = <<>> THEN <<>>
    ELSE extract_key_points(Head(responses).response) \o all_key_points(Tail(responses))

\* a context update that records the disagreement areas whatever the verdict
orchestrator_update_context_both(ctx, responses, analysis) ==
    add_disputed_points(IF analysis.consensus_reached
                        THEN add_agreed_facts(ctx, all_key_points(responses))
                        ELSE ctx,
                        identify_disagreement_areas(responses))

\* the context update of OrchestratorAgent.analyze_responses_and_provide_feedback
orchestrator_update_context(ctx, responses, analysis) ==
    IF analysis.consensus_reached
    THEN add_agreed_facts(ctx, all_key_points(responses))
    ELSE add_disputed_points(ctx, identify_disagreement_areas(responses))

\* what DebaterAgent._create_initial_prompt reads of the shared context
InitialPromptContext(ctx) ==
    [shared_knowledge |-> ctx.shared_knowledge, agreed_facts |-> <<>>,
     disputed_points |-> <<>>, key_concepts |-> <<>>]

\* a rebuttal prompt that also quotes the key concepts
rebuttal_prompt_with_concepts(ctx) ==
    [shared_knowledge |-> <<>>, agreed_facts |-> ctx.agreed_facts,
     disputed_points |-> ctx.disputed_points, key_concepts |-> ctx.key_concepts]

\* what DebaterAgent._create_rebuttal_prompt reads of the shared context
RebuttalPromptContext(ctx) ==
    [shared_knowledge |-> <<>>, agreed_facts |-> ctx.agreed_facts,
     disputed_points |-> ctx.disputed_points, key_concepts |-> <<>>]

\* --------------------------------------------------------- value shapes
\* DebateRound.consensus_analysis = None
NoAnalysis ==
    [average_similarity |-> 0, consensus_reached |-> FALSE,
     analysis_method |-> "none", similarity_scores |-> <<>>]

\* orchestrator_feedback = None
NoFeedback == [kind |-> "none", similarity |-> 0, target |-> 0]

\* final_summary = None
NoSummary == [kind |-> "none", note |-> FALSE, note_rounds |-> 0, note_score |-> 0]

\* no DebateResult has been returned yet
NoResult ==
    [total_rounds |-> 0, final_status |-> "none", rounds |-> <<>>,
     final_summary |-> NoSummary, consensus_evolution |-> <<>>,
     consensus_reached |-> FALSE]

\* a task slot of asyncio.gather that holds no task
IdleTask ==
    [st |-> "idle", response |-> 0, feedback |-> NoFeedback,
     prompt_context |-> InitialPromptContext(MCPContext), invocations |-> 0]

\* a call started by a collection node: generate_initial_response(question), or
\* generate_rebuttal(question, responses, orchestrator_feedback, round); the
\* call builds its prompt, reading the shared context, and awaits the one
\* inference it invokes (llm._acall)
PendingTask(feedback, prompt_context) ==
    [st |-> "pending", response |-> 0, feedback |-> feedback,
     prompt_context |-> prompt_context, invocations |-> 1]

\* DebaterResponse(debater_name, round_number, response)
DebaterResponse(d, r, t) == [debater_name |-> d, round_number |-> r, response |-> t]

\* DebateRound(round_number, debater_responses)
DebateRound(r, responses) ==
    [round_number |-> r, debater_responses |-> responses,
     consensus_analysis |-> NoAnalysis, orchestrator_feedback |-> NoFeedback]

\* ------------------------------------------------------ consensus engine
\* cosine similarity of the embeddings of two texts, in thousandths: equal
\* texts have similarity 1.0, texts 1 and 2 are close (0.7), every other pair
\* is orthogonal
PairSim(a, b) ==
    IF a = b THEN 1000
    ELSE IF {a, b} = {1, 2} THEN 700
    ELSE 0

\* the pairs i < j of calculate_semantic_similarity / calculate_keyword_similarity
Pairs(n) == {p \in (1..n) \X (1..n) : p[1] < p[2]}

\* calculate_semantic_similarity: the similarity map; the empty map when
\* embedding_model.encode raised and was caught
calculate_similarity(responses, sims_ok) ==
    IF ~sims_ok \/ Len(responses) < 2 THEN <<>>
    ELSE [p \in Pairs(Len(responses)) |->
            PairSim(responses[p[1]].response, responses[p[2]].response)]

\* cosine similarity of two rows of the TF-IDF matrix: a text without
\* vocabulary is the zero row, whose cosine with every row is 0
KeywordSim(a, b) ==
    IF a = EmptyText \/ b = EmptyText THEN 0 ELSE PairSim(a, b)

\* calculate_keyword_similarity: fit_transform raises ValueError (empty
\* vocabulary) when no response has a word left, which is caught and gives the
\* empty map
calculate_keyword_similarity(responses) ==
    IF Len(responses) < 2 THEN <<>>
    ELSE IF \A i \in 1..Len(responses) : responses[i].response = EmptyText THEN <<>>
    ELSE [p \in Pairs(Len(responses)) |->
            KeywordSim(responses[p[1]].response, responses[p[2]].response)]

\* Config.SIMILARITY_METHOD; "keyword" also stands for a process whose
\* embedding model failed to load
SimilarityMethods == {"semantic", "keyword"}
SIMILARITY_METHOD == "semantic"

RECURSIVE SumOver(_, _)
SumOver(f, S) ==
    IF S = {} THEN 0
    ELSE LET x == CHOOSE y \in S : TRUE IN f[x] + SumOver(f, S \ {x})

\* np.mean of the scores; the floor of the mean is kept, which compares with
\* the integer threshold exactly as the mean does
Mean(sims) ==
    IF DOMAIN sims = {} THEN 0
    ELSE SumOver(sims, DOMAIN sims) \div Cardinality(DOMAIN sims)

\* analyze_consensus that compares the average with the threshold for every
\* number of responses
analyze_consensus_always_compares(responses, method, sims_ok, threshold) ==
    LET sims == IF method = "semantic"
                THEN calculate_similarity(responses, sims_ok)
                ELSE calculate_keyword_similarity(responses)
        avg == Mean(sims)
    IN [average_similarity |-> avg,
        consensus_reached |-> (avg >= threshold),
        analysis_method |-> IF Len(responses) < 2 THEN "insufficient_data"
                            ELSE IF method = "semantic" THEN "semantic_embeddings"
                            ELSE "tfidf_keywords",
        similarity_scores |-> sims]

\* ConsensusEngine.analyze_consensus with Config.SIMILARITY_METHOD = method and
\* Config.CONSENSUS_THRESHOLD = threshold
analyze_consensus_at(responses, method, sims_ok, threshold) ==
    IF Len(responses) < 2
    THEN [average_similarity |-> 0, consensus_reached |-> FALSE,
          analysis_method |-> "insufficient_data", similarity_scores |-> <<>>]
    ELSE LET sims == IF method = "semantic"
                     THEN calculate_similarity(responses, sims_ok)
                     ELSE calculate_keyword_similarity(responses)
             avg == Mean(sims)
         IN [average_similarity |-> avg,
             consensus_reached |-> (avg >= threshold),
             analysis_method |-> IF method = "semantic" THEN "semantic_embeddings"
                                 ELSE "tfidf_keywords",
             similarity_scores |-> sims]

\* ConsensusEngine.analyze_consensus
analyze_consensus(responses, sims_ok) ==
    analyze_consensus_at(responses, SIMILARITY_METHOD, sims_ok, CONSENSUS_THRESHOLD)

\* the two concurrent conduct_debate calls on the workflow object
Runs == {1, 2}

\* MCPContext() as the set of calls that have written each field
NoWriters ==
    [conversation_history |-> {}, key_concepts |-> {}, agreed_facts |-> {},
     disputed_points |-> {}]

\* no prompt has been built
NoPrompt == [context_writers |-> {}, previous |-> [d \in Debaters |-> 0]]

\* analyze_responses_and_provide_feedback has not returned
NoEvaluation ==
    [analysis |-> NoAnalysis, feedback |-> NoFeedback, should_continue |-> FALSE]

\* no node has been entered: collection nodes, feedback nodes, summary nodes
NoSteps == [collect |-> 0, feedback |-> 0, summary |-> 0]

\* the strategy hints of suggest_convergence_strategies, by band
LowBandHints ==
    <<"Focus on finding common ground and shared principles",
      "Define key terms to ensure everyone is discussing the same concepts">>
MidBandHints ==
    <<"Identify specific points of disagreement and address them systematically",
      "Look for compromise positions that incorporate elements from different perspectives">>
HighBandHints ==
    <<"Refine the details and nuances of your shared understanding",
      "Work on integrating your similar viewpoints into a cohesive conclusion">>

\* suggest_convergence_strategies with <= in place of < at the band limits
suggest_convergence_strategies_inclusive(consensus_analysis) ==
    IF consensus_analysis.average_similarity <= 300 THEN LowBandHints
    ELSE IF consensus_analysis.average_similarity <= 600 THEN MidBandHints
    ELSE HighBandHints

\* ConsensusEngine.suggest_convergence_strategies (0.3 and 0.6 in thousandths)
suggest_convergence_strategies(consensus_analysis) ==
    IF consensus_analysis.average_similarity < 300 THEN LowBandHints
    ELSE IF consensus_analysis.average_similarity < 600 THEN MidBandHints
    ELSE HighBandHints

\* suggest_convergence_strategies has not been called
NoSuggestion == [analysis |-> NoAnalysis, strategies |-> <<>>]

\* no call of the consensus engine on its own
NoEngineCall ==
    [responses |-> <<>>, method |-> SIMILARITY_METHOD,
     threshold |-> CONSENSUS_THRESHOLD, sims_ok |-> TRUE,
     returned |-> FALSE, analysis |-> NoAnalysis,
     evaluated |-> FALSE, evaluation |-> NoEvaluation,
     suggested |-> FALSE, suggestion |-> NoSuggestion]

\* ----------------------------------------------------------------- state
VARIABLES
    pc,                    \* position of the call: caller, a graph node, END, returned, raised
    initialized,           \* LLMDebateSystem.initialized
    max_rounds,            \* DebateState.max_rounds
    status,                \* DebateState.status
    current_round,         \* DebateState.current_round
    debater_responses,     \* DebateState.debater_responses
    consensus_scores,      \* DebateState.consensus_scores
    orchestrator_feedback, \* DebateState.orchestrator_feedback
    final_summary,         \* DebateState.final_summary
    rounds_history,        \* DebateState.rounds_history
    tasks,                 \* the tasks awaited by the current asyncio.gather
    orphans,               \* debater calls still in flight after their gather raised
    mcp_context,           \* DebateWorkflow.mcp_context, shared with every agent
    result,                \* the DebateResult returned by conduct_debate
    first_terminal,        \* history: the first terminal status assigned to status
    collect_failed,        \* history: a collection step has failed in this run
    post_failure_calls,    \* history: kinds of calls issued after a collection failure
    inference_failed,      \* history: kinds of inference calls that failed
    ainvoke_raised,        \* history: graph.ainvoke raised into conduct_debate
    steps,                 \* history: the nodes of each kind the run has entered
    ctx_log,               \* history: the operations applied to a context on its own
    engine_call,           \* a call of the consensus engine on its own: input and result
    run_pc,                \* two calls on one workflow: the position of each call
    run_round,             \* two calls on one workflow: DebateState.current_round of each
    run_tasks,             \* two calls on one workflow: the tasks of each call's gather
    run_prompt,            \* two calls on one workflow: what each call's latest prompts read
    shared_writers,        \* per field of DebateWorkflow.mcp_context, the calls whose data it holds
    history_writer,        \* per agent, the call that wrote response_history[-1] (0: empty)
    call_pc,               \* the debater calls of a run: position of the run
    call_max_rounds,       \* the debater calls of a run: DebateState.max_rounds
    call_round,            \* the debater calls of a run: DebateState.current_round
    call_responses,        \* the debater calls of a run: DebateState.debater_responses
    call_feedback,         \* the debater calls of a run: the round orchestrator_feedback was written in
    call_tasks,            \* the debater calls of a run: the tasks of the current gather
    call_orphans,          \* the debater calls of a run: calls in flight after their gather raised
    call_reached,          \* the debater calls of a run: verdict on debater_responses
    call_failed,           \* history: a collection step of the run has failed
    conversation_history,  \* MCPContext.conversation_history
    response_history,      \* DebaterAgent.response_history of every agent
    runs_started,          \* runs one after another: number of conduct_debate calls made so far
    contexts,              \* runs one after another: the MCPContext objects made so far
    agent_mcp_context,     \* runs one after another: the mcp_context attribute of every agent
    current_debates,       \* api/main.py: current_debates, the tracking entry of every job
    run_debate_pc,         \* api/main.py: position of the background task run_debate of every job
    progress_task,         \* api/main.py: the track_debate_progress task of every job
    debate_outcome,        \* history: how the conduct_debate call of every job ended
    late_write,            \* history: the progress task wrote to a job that was no longer running
    debate_queue,          \* api.py: debate_queue, the ids in progress
    active_debates,        \* api.py: active_debates, the result stored under every id
    background_pc,         \* api.py: position of conduct_debate_background of every id
    system_initialized,    \* api.py: debate_system.initialized
    deleted,               \* history: the ids removed by delete_debate
    http_response          \* api.py: the answer to the latest request

state_vars ==
    <<max_rounds, status, current_round, debater_responses, consensus_scores,
      orchestrator_feedback, final_summary, rounds_history>>

history_vars ==
    <<first_terminal, collect_failed, post_failure_calls, inference_failed, ainvoke_raised>>

\* the state of the components exercised on their own, which a debate run
\* leaves alone
shared_vars ==
    <<run_pc, run_round, run_tasks, run_prompt, shared_writers, history_writer>>

\* the state of the debater calls of a run followed on their own
calls_vars ==
    <<call_pc, call_max_rounds, call_round, call_responses, call_feedback, call_tasks,
      call_orphans, call_reached, call_failed, conversation_history, response_history>>

\* the state of runs made one after another on the workflow object
runs_vars == <<runs_started, contexts, agent_mcp_context>>

\* the state followed only by the specifications of the layers around one run
\* the job tracker of api/main.py
jobs_vars == <<current_debates, run_debate_pc, progress_task, debate_outcome, late_write>>

\* the REST API of api.py
rest_vars ==
    <<debate_queue, active_debates, background_pc, system_initialized, deleted, http_response>>

outer_vars == <<runs_vars, jobs_vars, rest_vars>>

component_vars == <<ctx_log, engine_call, shared_vars, calls_vars, outer_vars>>

vars ==
    <<pc, initialized, state_vars, tasks, orphans, mcp_context, result,
      history_vars, steps, component_vars>>

\* the workflow object before any of the two calls
SharedAtRest ==
    /\ run_pc = [r \in Runs |-> "caller"]
    /\ run_round = [r \in Runs |-> 0]
    /\ run_tasks = [r \in Runs |-> [d \in Debaters |-> "idle"]]
    /\ run_prompt = [r \in Runs |-> NoPrompt]
    /\ shared_writers = NoWriters
    /\ history_writer = [d \in Debaters |-> 0]

\* no prompt input: the initial prompt quotes no response and no feedback
NoCallPrompt == [others |-> {}, feedback |-> 0, previous |-> 0]

\* the workflow object and its agents before the run
CallsAtRest ==
    /\ call_pc = "caller"
    /\ call_max_rounds = 0
    /\ call_round = 0
    /\ call_responses = <<>>
    /\ call_feedback = 0
    /\ call_tasks = [d \in Debaters |-> [st |-> "idle", prompt |-> NoCallPrompt]]
    /\ call_orphans = {}
    /\ call_reached = FALSE
    /\ call_failed = FALSE
    /\ conversation_history = <<>>
    /\ response_history = [d \in Debaters |-> <<>>]

\* the orchestrator among the agents (the debaters are 1..NumDebaters)
Orchestrator == 0

Agents == Debaters \cup {Orchestrator}

\* MCPContext() as the sets of runs whose data each field holds
NoContextData == [agreed_facts |-> {}, disputed_points |-> {}, key_concepts |-> {}]

\* DebateWorkflow.__init__: one MCPContext (number 0), handed to every agent
RunsAtRest ==
    /\ runs_started = 0
    /\ contexts = [c \in 0..MaxRuns |-> NoContextData]
    /\ agent_mcp_context = [a \in Agents |-> 0]

\* debate ids (uuid4 strings) the API hands out
DebateIds == 1..MaxJobs

\* no entry under a debate id in current_debates
NoJob == [status |-> "absent", progress |-> 0, max_rounds |-> 0, result |-> "none"]

\* api/main.py at import: current_debates = {}
JobsAtRest ==
    /\ current_debates = [j \in DebateIds |-> NoJob]
    /\ run_debate_pc = [j \in DebateIds |-> "none"]
    /\ progress_task = [j \in DebateIds |-> "none"]
    /\ debate_outcome = [j \in DebateIds |-> "none"]
    /\ late_write = [j \in DebateIds |-> FALSE]

\* no request answered yet
NoResponse == [request |-> "none", id |-> 0, question |-> <<>>, status_code |-> 0, detail |-> "none"]

\* api.py at import: LLMDebateSystem(), active_debates = {}, debate_queue = []
RestAtRest ==
    /\ debate_queue = <<>>
    /\ active_debates = [i \in DebateIds |-> "absent"]
    /\ background_pc = [i \in DebateIds |-> "none"]
    /\ system_initialized = FALSE
    /\ deleted = {}
    /\ http_response = NoResponse

OuterAtRest == RunsAtRest /\ JobsAtRest /\ RestAtRest

\* LLMDebateSystem.__init__ and the state before the call
Init ==
    /\ pc = "caller"
    /\ initialized = FALSE
    /\ max_rounds = 0
    /\ status = INITIALIZING
    /\ current_round = 0
    /\ debater_responses = <<>>
    /\ consensus_scores = <<>>
    /\ orchestrator_feedback = NoFeedback
    /\ final_summary = NoSummary
    /\ rounds_history = <<>>
    /\ tasks = [d \in Debaters |-> IdleTask]
    /\ orphans = {}
    /\ mcp_context = MCPContext
    /\ result = NoResult
    /\ first_terminal = "none"
    /\ collect_failed = FALSE
    /\ post_failure_calls = {}
    /\ inference_failed = {}
    /\ ainvoke_raised = FALSE
    /\ steps = NoSteps
    /\ ctx_log = <<>>
    /\ engine_call = NoEngineCall
    /\ SharedAtRest
    /\ CallsAtRest
    /\ OuterAtRest

\* history bookkeeping shared by the actions
SetTerminal(s) == IF first_terminal = "none" THEN s ELSE first_terminal
IssueCalls(kinds) == IF collect_failed THEN post_failure_calls \cup kinds ELSE post_failure_calls

\* ------------------------------------------------------------- routing
\* _should_continue_debate with the consensus test moved before the round test
should_continue_consensus_first(cr, mr, rh) ==
    IF /\ rh # <<>>
       /\ rh[Len(rh)].consensus_analysis.consensus_reached
    THEN "consensus"
    ELSE IF cr >= mr THEN "max_rounds"
    ELSE "continue"

\* _should_continue_debate with > in place of >= in the round test
should_continue_strict_limit(cr, mr, rh) ==
    IF cr > mr THEN "max_rounds"
    ELSE IF /\ rh # <<>>
            /\ rh[Len(rh)].consensus_analysis.consensus_reached
         THEN "consensus"
    ELSE "continue"

\* _should_continue_debate that counts the round about to start
should_continue_one_round_early(cr, mr, rh) ==
    IF cr + 1 >= mr THEN "max_rounds"
    ELSE IF /\ rh # <<>>
            /\ rh[Len(rh)].consensus_analysis.consensus_reached
         THEN "consensus"
    ELSE "continue"

\* _should_continue_debate that looks at the round limit only
should_continue_until_limit(cr, mr, rh) ==
    IF cr >= mr THEN "max_rounds" ELSE "continue"

\* DebateWorkflow._should_continue_debate
_should_continue_debate(cr, mr, rh) ==
    IF cr >= mr THEN "max_rounds"
    ELSE IF /\ rh # <<>>
            /\ rh[Len(rh)].consensus_analysis # NoAnalysis
            /\ rh[Len(rh)].consensus_analysis.consensus_reached
         THEN "consensus"
    ELSE "continue"

\* the mapping of add_conditional_edges in _create_graph
ConditionalEdge(label) ==
    CASE label = "continue" -> "generate_feedback"
      [] label = "consensus" -> "finalize_debate"
      [] label = "max_rounds" -> "handle_max_rounds"

\* ------------------------------------------------------------- actions
\* LLMDebateSystem.initialize, called by the caller before the debate
initialize ==
    /\ pc = "caller"
    /\ ~initialized
    /\ \E ok \in BOOLEAN : initialized' = ok
    /\ UNCHANGED <<pc, component_vars, steps, mcp_context, state_vars, tasks, orphans, result, history_vars>>

\* LLMDebateSystem.conduct_debate up to the point where
\* DebateWorkflow.conduct_debate has built initial_state and calls graph.ainvoke
conduct_debate ==
    /\ pc = "caller"
    \* ok: the late initialization succeeds; max_rounds_arg: the max_rounds
    \* argument of the call (0 = None)
    /\ \E ok \in BOOLEAN, max_rounds_arg \in 0..MaxRoundsArg :
         IF ~initialized /\ ~ok
         THEN \* raise RuntimeError("System initialization failed")
              /\ pc' = "raised"
              /\ UNCHANGED <<initialized, state_vars, steps>>
         ELSE /\ initialized' = TRUE
              /\ max_rounds' = IF max_rounds_arg # 0 THEN max_rounds_arg ELSE MAX_ROUNDS
              /\ status' = INITIALIZING
              /\ current_round' = 0
              /\ debater_responses' = <<>>
              /\ consensus_scores' = <<>>
              /\ orchestrator_feedback' = NoFeedback
              /\ final_summary' = NoSummary
              /\ rounds_history' = <<>>
              /\ steps' = NoSteps
              /\ pc' = "initialize_debate"
    /\ UNCHANGED <<component_vars, mcp_context, tasks, orphans, result, history_vars>>

\* _initialize_debate that leaves current_round at the DebateState default
initialize_debate_round_zero ==
    /\ pc = "initialize_debate"
    /\ status' = IN_PROGRESS
    /\ current_round' = 0
    \* self.mcp_context = MCPContext(), handed to every agent and the orchestrator
    /\ mcp_context' = MCPContext
    /\ pc' = "collect_initial_responses"
    /\ UNCHANGED <<initialized, component_vars, steps, max_rounds, debater_responses,
                   consensus_scores, orchestrator_feedback, final_summary,
                   rounds_history, tasks, orphans, result, history_vars>>

\* DebateWorkflow._initialize_debate
_initialize_debate ==
    /\ pc = "initialize_debate"
    /\ status' = IN_PROGRESS
    /\ current_round' = 1
    \* self.mcp_context = MCPContext(), handed to every agent and the orchestrator
    /\ mcp_context' = MCPContext
    /\ pc' = "collect_initial_responses"
    /\ UNCHANGED <<initialized, component_vars, steps, max_rounds, debater_responses,
                   consensus_scores, orchestrator_feedback, final_summary,
                   rounds_history, tasks, orphans, result, history_vars>>

\* DebateWorkflow._collect_initial_responses up to the await on asyncio.gather:
\* one generate_initial_response call per debater is started
_collect_initial_responses ==
    /\ pc = "collect_initial_responses"
    /\ tasks' = [d \in Debaters |-> PendingTask(NoFeedback, InitialPromptContext(mcp_context))]
    /\ post_failure_calls' = IssueCalls({"debater"})
    /\ pc' = "gather_initial"
    /\ steps' = [steps EXCEPT !.collect = @ + 1]
    /\ UNCHANGED <<initialized, component_vars, mcp_context, state_vars, orphans, result,
                   first_terminal, collect_failed, inference_failed, ainvoke_raised>>

\* a debater call that invokes the inference a second time when the first
\* invocation raised
task_complete_with_retry(d) ==
    /\ pc \in {"gather_initial", "gather_rebuttals"}
    /\ tasks[d].st = "pending"
    /\ \/ /\ \E t \in Texts :
                /\ tasks' = [tasks EXCEPT ![d].st = "ok", ![d].response = t]
                /\ mcp_context' = update_mcp_context(mcp_context, t)
          /\ UNCHANGED inference_failed
       \/ /\ tasks' = IF tasks[d].invocations < 2
                       THEN [tasks EXCEPT ![d].invocations = 2]
                       ELSE [tasks EXCEPT ![d].st = "failed"]
          /\ inference_failed' = inference_failed \cup {"debater"}
          /\ UNCHANGED mcp_context
    /\ UNCHANGED <<pc, initialized, component_vars, steps, state_vars, orphans, result,
                   first_terminal, collect_failed, post_failure_calls, ainvoke_raised>>

\* one debater call awaited by the gather returns a text or raises
\* (DebaterAgent.generate_initial_response / generate_rebuttal)
task_complete(d) ==
    /\ pc \in {"gather_initial", "gather_rebuttals"}
    /\ tasks[d].st = "pending"
    /\ \/ /\ \E t \in Texts :
                /\ tasks' = [tasks EXCEPT ![d].st = "ok", ![d].response = t]
                /\ mcp_context' = update_mcp_context(mcp_context, t)
          /\ UNCHANGED inference_failed
       \/ /\ tasks' = [tasks EXCEPT ![d].st = "failed"]
          /\ inference_failed' = inference_failed \cup {"debater"}
          /\ UNCHANGED mcp_context
    /\ UNCHANGED <<pc, initialized, component_vars, steps, state_vars, orphans, result,
                   first_terminal, collect_failed, post_failure_calls, ainvoke_raised>>

\* the calls of a gather that are still pending when the gather raises
Abandoned == {[agent |-> d, round |-> current_round] : d \in {e \in Debaters : tasks[e].st = "pending"}}

\* gather_resume that stores the responses without appending the round record
gather_resume_no_record(round_of_response) ==
    /\ \/ \A d \in Debaters : tasks[d].st = "ok"
       \/ \E d \in Debaters : tasks[d].st = "failed"
    /\ IF \A d \in Debaters : tasks[d].st = "ok"
       THEN /\ debater_responses' =
                  [d \in Debaters |-> DebaterResponse(d, round_of_response, tasks[d].response)]
            /\ UNCHANGED <<rounds_history, status, orphans, first_terminal, collect_failed>>
       ELSE /\ status' = ERROR
            /\ first_terminal' = SetTerminal(ERROR)
            /\ collect_failed' = TRUE
            /\ orphans' = orphans \cup Abandoned
            /\ UNCHANGED <<debater_responses, rounds_history>>
    /\ tasks' = [d \in Debaters |-> IdleTask]
    /\ pc' = "analyze_consensus"
    /\ UNCHANGED <<initialized, component_vars, steps, mcp_context, max_rounds, current_round,
                   consensus_scores, orchestrator_feedback, final_summary, result,
                   post_failure_calls, inference_failed, ainvoke_raised>>

\* the rest of a collection node after `await asyncio.gather(*tasks)`: the
\* gather returns once every call has returned, and raises as soon as one
\* call has raised (the other calls are not cancelled)
gather_resume(round_of_response) ==
    /\ \/ \A d \in Debaters : tasks[d].st = "ok"
       \/ \E d \in Debaters : tasks[d].st = "failed"
    /\ IF \A d \in Debaters : tasks[d].st = "ok"
       THEN LET responses ==
                  [d \in Debaters |-> DebaterResponse(d, round_of_response, tasks[d].response)]
            IN /\ debater_responses' = responses
               /\ rounds_history' = Append(rounds_history, DebateRound(current_round, responses))
               /\ UNCHANGED <<status, orphans, first_terminal, collect_failed>>
       ELSE /\ status' = ERROR
            /\ first_terminal' = SetTerminal(ERROR)
            /\ collect_failed' = TRUE
            /\ orphans' = orphans \cup Abandoned
            /\ UNCHANGED <<debater_responses, rounds_history>>
    /\ tasks' = [d \in Debaters |-> IdleTask]
    /\ pc' = "analyze_consensus"
    /\ UNCHANGED <<initialized, component_vars, steps, mcp_context, max_rounds, current_round,
                   consensus_scores, orchestrator_feedback, final_summary, result,
                   post_failure_calls, inference_failed, ainvoke_raised>>

\* DebateWorkflow._collect_initial_responses after the await
\* (generate_initial_response stamps round_number = 1)
gather_initial ==
    /\ pc = "gather_initial"
    /\ gather_resume(1)

\* _analyze_consensus that analyses the responses of the first round record
analyze_consensus_first_round ==
    /\ pc = "analyze_consensus"
    /\ IF debater_responses = <<>>
       THEN UNCHANGED <<rounds_history, consensus_scores, post_failure_calls>>
       ELSE LET a == analyze_consensus(IF rounds_history # <<>>
                                       THEN rounds_history[1].debater_responses
                                       ELSE debater_responses, TRUE)
            IN   /\ rounds_history' =
                       IF rounds_history # <<>>
                       THEN [rounds_history EXCEPT ![Len(rounds_history)].consensus_analysis = a]
                       ELSE rounds_history
                 /\ consensus_scores' = Append(consensus_scores, a.average_similarity)
                 /\ post_failure_calls' = IssueCalls({"analysis"})
    /\ pc' = ConditionalEdge(_should_continue_debate(current_round, max_rounds, rounds_history'))
    /\ UNCHANGED <<initialized, component_vars, steps, mcp_context, max_rounds, status, current_round,
                   debater_responses, orchestrator_feedback, final_summary, tasks,
                   orphans, result, first_terminal, collect_failed, inference_failed,
                   ainvoke_raised>>

\* DebateWorkflow._analyze_consensus followed by the conditional edge.
\* The similarity computation is taken to succeed here (its caught failure,
\* the empty map, is the sims_ok = FALSE case of calculate_similarity); the
\* except branch of the node is not reachable, the engine raises nothing.
_analyze_consensus ==
    /\ pc = "analyze_consensus"
    /\ IF debater_responses = <<>>
       THEN UNCHANGED <<rounds_history, consensus_scores, post_failure_calls>>
       ELSE LET a == analyze_consensus(debater_responses, TRUE)
            IN   /\ rounds_history' =
                       IF rounds_history # <<>>
                       THEN [rounds_history EXCEPT ![Len(rounds_history)].consensus_analysis = a]
                       ELSE rounds_history
                 /\ consensus_scores' = Append(consensus_scores, a.average_similarity)
                 /\ post_failure_calls' = IssueCalls({"analysis"})
    /\ pc' = ConditionalEdge(_should_continue_debate(current_round, max_rounds, rounds_history'))
    /\ UNCHANGED <<initialized, component_vars, steps, mcp_context, max_rounds, status, current_round,
                   debater_responses, orchestrator_feedback, final_summary, tasks,
                   orphans, result, first_terminal, collect_failed, inference_failed,
                   ainvoke_raised>>

\* OrchestratorAgent._generate_feedback: the inference result, or the
\* fallback text with the similarity and the target when the call raised
orchestrator_generate_feedback(analysis, llm_ok) ==
    IF llm_ok
    THEN [kind |-> "llm", similarity |-> 0, target |-> 0]
    ELSE [kind |-> "fallback", similarity |-> analysis.average_similarity,
          target |-> CONSENSUS_THRESHOLD]

\* _generate_feedback that keeps the feedback in the state only and writes
\* none into the round record
generate_feedback_state_only ==
    /\ pc = "generate_feedback"
    /\ \E llm_ok \in BOOLEAN :
         LET analysis == analyze_consensus(debater_responses, TRUE)
             feedback == orchestrator_generate_feedback(analysis, llm_ok)
         IN /\ mcp_context' = orchestrator_update_context(mcp_context, debater_responses, analysis)
            /\ orchestrator_feedback' = feedback
            /\ rounds_history' = rounds_history
            /\ inference_failed' =
                  IF llm_ok THEN inference_failed ELSE inference_failed \cup {"feedback"}
    /\ post_failure_calls' = IssueCalls({"analysis", "feedback"})
    /\ pc' = "collect_rebuttals"
    /\ steps' = [steps EXCEPT !.feedback = @ + 1]
    /\ UNCHANGED <<initialized, component_vars, max_rounds, status, current_round,
                   debater_responses, consensus_scores, final_summary, tasks, orphans,
                   result, first_terminal, collect_failed, ainvoke_raised>>

\* DebateWorkflow._generate_feedback, with
\* OrchestratorAgent.analyze_responses_and_provide_feedback; a failed feedback
\* inference is caught in OrchestratorAgent._generate_feedback, so neither the
\* orchestrator's nor the node's except branch is reachable
_generate_feedback ==
    /\ pc = "generate_feedback"
    /\ \E llm_ok \in BOOLEAN :
         LET analysis == analyze_consensus(debater_responses, TRUE)
             feedback == orchestrator_generate_feedback(analysis, llm_ok)
         IN /\ mcp_context' = orchestrator_update_context(mcp_context, debater_responses, analysis)
            /\ orchestrator_feedback' = feedback
            /\ rounds_history' =
                  IF rounds_history # <<>>
                  THEN [rounds_history EXCEPT ![Len(rounds_history)].orchestrator_feedback = feedback]
                  ELSE rounds_history
            /\ inference_failed' =
                  IF llm_ok THEN inference_failed ELSE inference_failed \cup {"feedback"}
    /\ post_failure_calls' = IssueCalls({"analysis", "feedback"})
    /\ pc' = "collect_rebuttals"
    /\ steps' = [steps EXCEPT !.feedback = @ + 1]
    /\ UNCHANGED <<initialized, component_vars, max_rounds, status, current_round,
                   debater_responses, consensus_scores, final_summary, tasks, orphans,
                   result, first_terminal, collect_failed, ainvoke_raised>>

\* _collect_rebuttals that collects without counting the round
collect_rebuttals_without_increment ==
    /\ pc = "collect_rebuttals"
    /\ current_round' = current_round
    /\ tasks' = [d \in Debaters |-> PendingTask(orchestrator_feedback, RebuttalPromptContext(mcp_context))]
    /\ post_failure_calls' = IssueCalls({"debater"})
    /\ pc' = "gather_rebuttals"
    /\ steps' = [steps EXCEPT !.collect = @ + 1]
    /\ UNCHANGED <<initialized, component_vars, mcp_context, max_rounds, status, debater_responses,
                   consensus_scores, orchestrator_feedback, final_summary,
                   rounds_history, orphans, result, first_terminal, collect_failed,
                   inference_failed, ainvoke_raised>>

\* DebateWorkflow._collect_rebuttals up to the await on asyncio.gather
_collect_rebuttals ==
    /\ pc = "collect_rebuttals"
    /\ current_round' = current_round + 1
    /\ tasks' = [d \in Debaters |-> PendingTask(orchestrator_feedback, RebuttalPromptContext(mcp_context))]
    /\ post_failure_calls' = IssueCalls({"debater"})
    /\ pc' = "gather_rebuttals"
    /\ steps' = [steps EXCEPT !.collect = @ + 1]
    /\ UNCHANGED <<initialized, component_vars, mcp_context, max_rounds, status, debater_responses,
                   consensus_scores, orchestrator_feedback, final_summary,
                   rounds_history, orphans, result, first_terminal, collect_failed,
                   inference_failed, ainvoke_raised>>

\* DebateWorkflow._collect_rebuttals after the await
\* (generate_rebuttal stamps round_number = state.current_round)
gather_rebuttals ==
    /\ pc = "gather_rebuttals"
    /\ gather_resume(current_round)

\* OrchestratorAgent.generate_final_summary: the inference result, or the
\* fixed fallback text when the call raised
generate_final_summary(llm_ok) ==
    [kind |-> IF llm_ok THEN "llm" ELSE "fallback",
     note |-> FALSE, note_rounds |-> 0, note_score |-> 0]

\* _finalize_debate that reports an error when the summary call failed
finalize_debate_error_on_failed_summary ==
    /\ pc = "finalize_debate"
    /\ \E llm_ok \in BOOLEAN :
         /\ final_summary' = generate_final_summary(llm_ok)
         /\ inference_failed' =
               IF llm_ok THEN inference_failed ELSE inference_failed \cup {"summary"}
         /\ status' = IF llm_ok THEN CONSENSUS_REACHED ELSE ERROR
         /\ first_terminal' = SetTerminal(IF llm_ok THEN CONSENSUS_REACHED ELSE ERROR)
    /\ post_failure_calls' = IssueCalls({"summary"})
    /\ pc' = "END"
    /\ steps' = [steps EXCEPT !.summary = @ + 1]
    /\ UNCHANGED <<initialized, component_vars, mcp_context, max_rounds, current_round,
                   debater_responses, consensus_scores, orchestrator_feedback,
                   rounds_history, tasks, orphans, result, collect_failed, ainvoke_raised>>

\* DebateWorkflow._finalize_debate (generate_final_summary catches its own
\* failure, so the except branch of the node is not reachable)
_finalize_debate ==
    /\ pc = "finalize_debate"
    /\ \E llm_ok \in BOOLEAN :
         /\ final_summary' = generate_final_summary(llm_ok)
         /\ inference_failed' =
               IF llm_ok THEN inference_failed ELSE inference_failed \cup {"summary"}
    /\ status' = CONSENSUS_REACHED
    /\ first_terminal' = SetTerminal(CONSENSUS_REACHED)
    /\ post_failure_calls' = IssueCalls({"summary"})
    /\ pc' = "END"
    /\ steps' = [steps EXCEPT !.summary = @ + 1]
    /\ UNCHANGED <<initialized, component_vars, mcp_context, max_rounds, current_round,
                   debater_responses, consensus_scores, orchestrator_feedback,
                   rounds_history, tasks, orphans, result, collect_failed, ainvoke_raised>>

\* _handle_max_rounds that stores the summary but leaves status as it was
handle_max_rounds_status_unset ==
    /\ pc = "handle_max_rounds"
    /\ \E llm_ok \in BOOLEAN :
         /\ final_summary' =
               [generate_final_summary(llm_ok) EXCEPT
                  !.note = TRUE,
                  !.note_rounds = max_rounds,
                  !.note_score = IF consensus_scores # <<>>
                                 THEN consensus_scores[Len(consensus_scores)] ELSE 0]
         /\ inference_failed' =
               IF llm_ok THEN inference_failed ELSE inference_failed \cup {"summary"}
    /\ post_failure_calls' = IssueCalls({"summary"})
    /\ pc' = "END"
    /\ steps' = [steps EXCEPT !.summary = @ + 1]
    /\ UNCHANGED <<initialized, component_vars, mcp_context, max_rounds, status, current_round,
                   debater_responses, consensus_scores, orchestrator_feedback,
                   rounds_history, tasks, orphans, result, first_terminal,
                   collect_failed, ainvoke_raised>>

\* _handle_max_rounds whose note quotes the first entry of the trajectory
handle_max_rounds_first_score ==
    /\ pc = "handle_max_rounds"
    /\ \E llm_ok \in BOOLEAN :
         /\ final_summary' =
               [generate_final_summary(llm_ok) EXCEPT
                  !.note = TRUE,
                  !.note_rounds = max_rounds,
                  !.note_score = IF consensus_scores # <<>>
                                 THEN consensus_scores[1] ELSE 0]
         /\ inference_failed' =
               IF llm_ok THEN inference_failed ELSE inference_failed \cup {"summary"}
    /\ status' = MAX_ROUNDS_EXCEEDED
    /\ first_terminal' = SetTerminal(MAX_ROUNDS_EXCEEDED)
    /\ post_failure_calls' = IssueCalls({"summary"})
    /\ pc' = "END"
    /\ steps' = [steps EXCEPT !.summary = @ + 1]
    /\ UNCHANGED <<initialized, component_vars, mcp_context, max_rounds, current_round,
                   debater_responses, consensus_scores, orchestrator_feedback,
                   rounds_history, tasks, orphans, result, collect_failed, ainvoke_raised>>

\* DebateWorkflow._handle_max_rounds
_handle_max_rounds ==
    /\ pc = "handle_max_rounds"
    /\ \E llm_ok \in BOOLEAN :
         /\ final_summary' =
               [generate_final_summary(llm_ok) EXCEPT
                  !.note = TRUE,
                  !.note_rounds = max_rounds,
                  !.note_score = IF consensus_scores # <<>>
                                 THEN consensus_scores[Len(consensus_scores)] ELSE 0]
         /\ inference_failed' =
               IF llm_ok THEN inference_failed ELSE inference_failed \cup {"summary"}
    /\ status' = MAX_ROUNDS_EXCEEDED
    /\ first_terminal' = SetTerminal(MAX_ROUNDS_EXCEEDED)
    /\ post_failure_calls' = IssueCalls({"summary"})
    /\ pc' = "END"
    /\ steps' = [steps EXCEPT !.summary = @ + 1]
    /\ UNCHANGED <<initialized, component_vars, mcp_context, max_rounds, current_round,
                   debater_responses, consensus_scores, orchestrator_feedback,
                   rounds_history, tasks, orphans, result, collect_failed, ainvoke_raised>>

\* DebateWorkflow.conduct_debate after graph.ainvoke returned final_state
conduct_debate_return ==
    /\ pc = "END"
    /\ result' = [total_rounds |-> current_round, final_status |-> status,
                  rounds |-> rounds_history, final_summary |-> final_summary,
                  consensus_evolution |-> consensus_scores,
                  consensus_reached |-> FALSE]
    /\ pc' = "returned"
    /\ UNCHANGED <<initialized, component_vars, steps, mcp_context, state_vars, tasks, orphans, history_vars>>

\* DebateWorkflow.conduct_debate, the except branch: graph.ainvoke raised
\* (an error of the graph runtime, not of a node: every node catches its own)
conduct_debate_except ==
    /\ pc \in GraphNodes
    /\ result' = [total_rounds |-> 0, final_status |-> ERROR, rounds |-> <<>>,
                  final_summary |-> [kind |-> "error", note |-> FALSE,
                                     note_rounds |-> 0, note_score |-> 0],
                  consensus_evolution |-> <<>>, consensus_reached |-> FALSE]
    /\ ainvoke_raised' = TRUE
    /\ orphans' = orphans \cup Abandoned
    /\ tasks' = [d \in Debaters |-> IdleTask]
    /\ pc' = "returned"
    \* final_state was never bound: the DebateState of the aborted run is dropped
    /\ status' = INITIALIZING
    /\ current_round' = 0
    /\ debater_responses' = <<>>
    /\ consensus_scores' = <<>>
    /\ orchestrator_feedback' = NoFeedback
    /\ final_summary' = NoSummary
    /\ rounds_history' = <<>>
    /\ UNCHANGED <<initialized, component_vars, steps, mcp_context, max_rounds, first_terminal,
                   collect_failed, post_failure_calls, inference_failed>>

\* a debater call abandoned by its gather returns or raises; nobody awaits it
orphan_complete(o) ==
    /\ o \in orphans
    /\ orphans' = orphans \ {o}
    /\ \/ /\ \E t \in Texts : mcp_context' = update_mcp_context(mcp_context, t)
          /\ UNCHANGED inference_failed
       \/ /\ inference_failed' = inference_failed \cup {"debater"}
          /\ UNCHANGED mcp_context
    /\ UNCHANGED <<pc, initialized, component_vars, steps, state_vars, tasks, result,
                   first_terminal, collect_failed, post_failure_calls, ainvoke_raised>>

Next ==
    \/ conduct_debate_except
    \/ initialize
    \/ conduct_debate
    \/ _initialize_debate
    \/ _collect_initial_responses
    \/ \E d \in Debaters : task_complete(d)
    \/ gather_initial
    \/ _analyze_consensus
    \/ _generate_feedback
    \/ _collect_rebuttals
    \/ gather_rebuttals
    \/ _finalize_debate
    \/ _handle_max_rounds
    \/ conduct_debate_return
    \/ \E o \in orphans : orphan_complete(o)

Spec == Init /\ [][Next]_vars

\* ------------------------------------------- the shared context on its own
\* One MCPContext, to which add_agreed_fact, add_disputed_point and the agents'
\* _update_mcp_context are applied in any order, with arguments that repeat.

\* the workflow variables of a system on which no debate has been started
WorkflowAtRest ==
    /\ pc = "caller"
    /\ initialized = FALSE
    /\ max_rounds = 0
    /\ status = INITIALIZING
    /\ current_round = 0
    /\ debater_responses = <<>>
    /\ consensus_scores = <<>>
    /\ orchestrator_feedback = NoFeedback
    /\ final_summary = NoSummary
    /\ rounds_history = <<>>
    /\ tasks = [d \in Debaters |-> IdleTask]
    /\ orphans = {}
    /\ result = NoResult
    /\ first_terminal = "none"
    /\ collect_failed = FALSE
    /\ post_failure_calls = {}
    /\ inference_failed = {}
    /\ ainvoke_raised = FALSE
    /\ steps = NoSteps

workflow_vars ==
    <<pc, initialized, state_vars, tasks, orphans, result, history_vars, steps>>

\* key points the orchestrator may pass to add_agreed_fact
AgreedFactArgs == {"s1", "s2", "s3"}

\* disagreement strings the orchestrator may pass to add_disputed_point
DisputedPointArgs ==
    {[topic |-> "agree", pos |-> <<1>>, neg |-> <<2, 3>>],
     [topic |-> "agree", pos |-> <<1, 2>>, neg |-> <<3>>]}

InitContextOps ==
    /\ WorkflowAtRest
    /\ mcp_context = MCPContext
    /\ ctx_log = <<>>
    /\ engine_call = NoEngineCall
    /\ SharedAtRest
    /\ CallsAtRest
    /\ OuterAtRest

ApplyToContext(op, arg, ctx) ==
    /\ Len(ctx_log) < MaxContextOps
    /\ mcp_context' = ctx
    /\ ctx_log' = Append(ctx_log, [op |-> op, arg |-> arg])
    /\ UNCHANGED <<workflow_vars, engine_call, shared_vars, calls_vars, outer_vars>>

\* MCPContext.add_agreed_fact(fact)
context_add_agreed_fact ==
    \E fact \in AgreedFactArgs :
       ApplyToContext("add_agreed_fact", fact, add_agreed_fact(mcp_context, fact))

\* MCPContext.add_disputed_point(point)
context_add_disputed_point ==
    \E point \in DisputedPointArgs :
       ApplyToContext("add_disputed_point", point, add_disputed_point(mcp_context, point))

\* DebaterAgent._update_mcp_context(response)
context_update_mcp_context ==
    \E t \in Texts :
       ApplyToContext("update_mcp_context", t, update_mcp_context(mcp_context, t))

NextContextOps ==
    \/ context_add_agreed_fact
    \/ context_add_disputed_point
    \/ context_update_mcp_context

SpecContextOps == InitContextOps /\ [][NextContextOps]_vars

\* ----------------------------------------- the consensus engine on its own
\* ConsensusEngine.analyze_consensus called once on a list of 0 to MaxResponses
\* responses, under a configured threshold, with a similarity computation that
\* succeeds or raises and is caught.

\* values of Config.CONSENSUS_THRESHOLD, in thousandths
Thresholds == {0, 500, CONSENSUS_THRESHOLD, 1000}

\* the texts handed to the engine
EngineTexts == Texts \cup {EmptyText}

\* the lists of responses of n debaters
ResponseLists(n) ==
    {[i \in 1..n |-> DebaterResponse(i, 1, texts[i])] : texts \in [1..n -> EngineTexts]}

\* a disagreement on another topic, recorded in an earlier round
EarlierDisputedPoint == [topic |-> "yes", pos |-> <<1>>, neg |-> <<2>>]

\* the shared context before the orchestrator is called: empty, or holding an
\* agreed fact and a disputed point of an earlier round
EngineContexts ==
    {MCPContext,
     [MCPContext EXCEPT !.agreed_facts = <<"s1">>,
                        !.disputed_points = <<EarlierDisputedPoint>>]}

InitEngine ==
    /\ WorkflowAtRest
    /\ mcp_context \in EngineContexts
    /\ ctx_log = <<>>
    /\ SharedAtRest
    /\ CallsAtRest
    /\ OuterAtRest
    /\ \E n \in 0..MaxResponses, threshold \in Thresholds, sims_ok \in BOOLEAN,
          method \in SimilarityMethods :
          \E responses \in ResponseLists(n) :
             engine_call = [NoEngineCall EXCEPT !.responses = responses,
                                                !.method = method,
                                                !.threshold = threshold,
                                                !.sims_ok = sims_ok]

\* consensus_engine.analyze_consensus(responses)
engine_analyze_consensus ==
    /\ ~engine_call.returned
    /\ engine_call' =
          [engine_call EXCEPT
             !.returned = TRUE,
             !.analysis = analyze_consensus_at(engine_call.responses, engine_call.method,
                                               engine_call.sims_ok,
                                               engine_call.threshold)]
    /\ UNCHANGED <<workflow_vars, mcp_context, ctx_log, shared_vars, calls_vars, outer_vars>>

\* orchestrator_agent.analyze_responses_and_provide_feedback(question, responses,
\* round_number): its own analysis, the context update, the feedback, and the
\* pair it returns
engine_analyze_responses_and_provide_feedback ==
    /\ ~engine_call.evaluated
    /\ \E llm_ok \in BOOLEAN :
         LET analysis == analyze_consensus_at(engine_call.responses, engine_call.method,
                                              engine_call.sims_ok, engine_call.threshold)
         IN /\ mcp_context' =
                  orchestrator_update_context(mcp_context, engine_call.responses, analysis)
            /\ engine_call' =
                  [engine_call EXCEPT
                     !.evaluated = TRUE,
                     !.evaluation =
                        [analysis |-> analysis,
                         feedback |-> orchestrator_generate_feedback(analysis, llm_ok),
                         should_continue |-> ~analysis.consensus_reached]]
    /\ UNCHANGED <<workflow_vars, ctx_log, shared_vars, calls_vars, outer_vars>>

\* average similarities around the band limits, in thousandths
Averages == {-200, 0, 299, 300, 301, 599, 600, 601, 1000}

\* the ConsensusAnalysis values handed to suggest_convergence_strategies
SuggestionInputs ==
    {[average_similarity |-> avg, consensus_reached |-> reached,
      analysis_method |-> method, similarity_scores |-> <<>>] :
        avg \in Averages, reached \in BOOLEAN,
        method \in {"semantic_embeddings", "tfidf_keywords"}}

\* consensus_engine.suggest_convergence_strategies(consensus_analysis): the call
\* takes an analysis and no response list, and is made where there is none
engine_suggest_convergence_strategies ==
    /\ ~engine_call.suggested
    /\ engine_call.responses = <<>>
    /\ \E consensus_analysis \in SuggestionInputs :
          engine_call' =
             [engine_call EXCEPT
                !.suggested = TRUE,
                !.suggestion =
                   [analysis |-> consensus_analysis,
                    strategies |-> suggest_convergence_strategies(consensus_analysis)]]
    /\ UNCHANGED <<workflow_vars, mcp_context, ctx_log, shared_vars, calls_vars, outer_vars>>

NextEngine ==
    \/ engine_analyze_consensus
    \/ engine_analyze_responses_and_provide_feedback
    \/ engine_suggest_convergence_strategies

SpecEngine == InitEngine /\ [][NextEngine]_vars

\* ------------------------------------- two calls on one workflow object
\* debate_workflow is one object per process; two conduct_debate coroutines on
\* it interleave at their awaits.  Each call has its own DebateState; the
\* MCPContext and the agents, with their response_history, belong to the
\* workflow.  Data is represented by the call that wrote it; every inference
\* call succeeds, and whether an analysis reaches consensus is left open.

InitShared ==
    /\ WorkflowAtRest
    /\ mcp_context = MCPContext
    /\ ctx_log = <<>>
    /\ engine_call = NoEngineCall
    /\ SharedAtRest
    /\ CallsAtRest
    /\ OuterAtRest

shared_frame == <<workflow_vars, mcp_context, ctx_log, engine_call, calls_vars, outer_vars>>

\* DebateWorkflow.conduct_debate: initial_state is built, graph.ainvoke is
\* called; both calls pass max_rounds = MaxRoundsArg
shared_conduct_debate(r) ==
    /\ run_pc[r] = "caller"
    /\ run_pc' = [run_pc EXCEPT ![r] = "initialize_debate"]
    /\ UNCHANGED <<run_round, run_tasks, run_prompt, shared_writers, history_writer,
                   shared_frame>>

\* DebateWorkflow._initialize_debate: self.mcp_context = MCPContext(), and every
\* agent and the orchestrator are pointed at the new object
shared_initialize_debate(r) ==
    /\ run_pc[r] = "initialize_debate"
    /\ run_round' = [run_round EXCEPT ![r] = 1]
    /\ shared_writers' = NoWriters
    /\ run_pc' = [run_pc EXCEPT ![r] = "collect_initial_responses"]
    /\ UNCHANGED <<run_tasks, run_prompt, history_writer, shared_frame>>

\* DebateWorkflow._collect_initial_responses up to the await: the initial
\* prompts read shared_knowledge only, which nothing writes
shared_collect_initial_responses(r) ==
    /\ run_pc[r] = "collect_initial_responses"
    /\ run_tasks' = [run_tasks EXCEPT ![r] = [d \in Debaters |-> "pending"]]
    /\ run_prompt' = [run_prompt EXCEPT ![r] = NoPrompt]
    /\ run_pc' = [run_pc EXCEPT ![r] = "gather_initial"]
    /\ UNCHANGED <<run_round, shared_writers, history_writer, shared_frame>>

\* DebaterAgent.generate_initial_response / generate_rebuttal after the
\* inference returned: response_history.append and _update_mcp_context, on the
\* context the agent points at now
shared_task_complete(r, d) ==
    /\ run_tasks[r][d] = "pending"
    /\ run_tasks' = [run_tasks EXCEPT ![r][d] = "ok"]
    /\ history_writer' = [history_writer EXCEPT ![d] = r]
    /\ \E has_concept \in BOOLEAN :
          shared_writers' =
             [shared_writers EXCEPT
                !.conversation_history = @ \cup {r},
                !.key_concepts = IF has_concept THEN @ \cup {r} ELSE @]
    /\ UNCHANGED <<run_pc, run_round, run_prompt, shared_frame>>

\* the await on asyncio.gather returns, the round record is appended
shared_gather(r) ==
    /\ run_pc[r] \in {"gather_initial", "gather_rebuttals"}
    /\ \A d \in Debaters : run_tasks[r][d] = "ok"
    /\ run_tasks' = [run_tasks EXCEPT ![r] = [d \in Debaters |-> "idle"]]
    /\ run_pc' = [run_pc EXCEPT ![r] = "analyze_consensus"]
    /\ UNCHANGED <<run_round, run_prompt, shared_writers, history_writer, shared_frame>>

\* DebateWorkflow._analyze_consensus, the conditional edge, and the summary node
\* it leads to when the call ends
shared_analyze_consensus(r) ==
    /\ run_pc[r] = "analyze_consensus"
    /\ \E reached \in BOOLEAN :
          run_pc' = [run_pc EXCEPT ![r] =
                        IF run_round[r] >= MaxRoundsArg \/ reached THEN "END"
                        ELSE "generate_feedback"]
    /\ UNCHANGED <<run_round, run_tasks, run_prompt, shared_writers, history_writer,
                   shared_frame>>

\* DebateWorkflow._generate_feedback: the orchestrator adds the disagreements
\* it identified, if any, to the context it points at now
shared_generate_feedback(r) ==
    /\ run_pc[r] = "generate_feedback"
    /\ \E disagreements \in BOOLEAN :
          shared_writers' =
             [shared_writers EXCEPT
                !.disputed_points = IF disagreements THEN @ \cup {r} ELSE @]
    /\ run_pc' = [run_pc EXCEPT ![r] = "collect_rebuttals"]
    /\ UNCHANGED <<run_round, run_tasks, run_prompt, history_writer, shared_frame>>

\* DebateWorkflow._collect_rebuttals up to the await: every rebuttal prompt is
\* built from the agreed facts and disputed points of the context and from the
\* agent's response_history[-1]
shared_collect_rebuttals(r) ==
    /\ run_pc[r] = "collect_rebuttals"
    /\ run_round' = [run_round EXCEPT ![r] = @ + 1]
    /\ run_tasks' = [run_tasks EXCEPT ![r] = [d \in Debaters |-> "pending"]]
    /\ run_prompt' =
          [run_prompt EXCEPT ![r] =
              [context_writers |->
                   shared_writers.agreed_facts \cup shared_writers.disputed_points,
               previous |-> history_writer]]
    /\ run_pc' = [run_pc EXCEPT ![r] = "gather_rebuttals"]
    /\ UNCHANGED <<shared_writers, history_writer, shared_frame>>

NextShared ==
    \E r \in Runs :
       \/ shared_conduct_debate(r)
       \/ shared_initialize_debate(r)
       \/ shared_collect_initial_responses(r)
       \/ \E d \in Debaters : shared_task_complete(r, d)
       \/ shared_gather(r)
       \/ shared_analyze_consensus(r)
       \/ shared_generate_feedback(r)
       \/ shared_collect_rebuttals(r)

SpecShared == InitShared /\ [][NextShared]_vars

\* ------------------------------------------- the debater calls of a run
\* One run of the workflow, followed for what its debater calls read and
\* write: the prompt inputs, the agents' response_history and the conversation
\* log.  A response is represented by its debater and round, the feedback by
\* the round it was written in; the response texts are left out, and the
\* verdict of an analysis on newly collected responses is left open.

\* DebaterResponse(debater_name, round_number) without its text
CallResponse(d, r) == [debater_name |-> d, round_number |-> r]

\* the inputs of DebaterAgent._create_rebuttal_prompt: the responses of the
\* other debaters among other_responses, the orchestrator feedback, and
\* response_history[-1] (0 for "None")
RebuttalPromptInputs(d, other_responses, feedback, history) ==
    [others |-> {other_responses[i] :
                   i \in {j \in 1..Len(other_responses) :
                            other_responses[j].debater_name # d}},
     feedback |-> feedback,
     previous |-> IF history # <<>> THEN history[Len(history)] ELSE 0]

InitCalls ==
    /\ WorkflowAtRest
    /\ mcp_context = MCPContext
    /\ ctx_log = <<>>
    /\ engine_call = NoEngineCall
    /\ SharedAtRest
    /\ CallsAtRest
    /\ OuterAtRest

calls_frame == <<workflow_vars, mcp_context, ctx_log, engine_call, shared_vars, outer_vars>>

\* DebateWorkflow.conduct_debate: initial_state, then graph.ainvoke
calls_conduct_debate ==
    /\ call_pc = "caller"
    /\ \E max_rounds_arg \in 0..MaxRoundsArg :
          call_max_rounds' = IF max_rounds_arg # 0 THEN max_rounds_arg ELSE MAX_ROUNDS
    /\ call_pc' = "initialize_debate"
    /\ UNCHANGED <<call_round, call_responses, call_feedback, call_tasks, call_orphans,
                   call_reached, call_failed, conversation_history, response_history,
                   calls_frame>>

\* DebateWorkflow._initialize_debate: current_round = 1 and a new MCPContext
calls_initialize_debate ==
    /\ call_pc = "initialize_debate"
    /\ call_round' = 1
    /\ conversation_history' = <<>>
    /\ call_pc' = "collect_initial_responses"
    /\ UNCHANGED <<call_max_rounds, call_responses, call_feedback, call_tasks, call_orphans,
                   call_reached, call_failed, response_history, calls_frame>>

\* DebateWorkflow._collect_initial_responses up to the await on asyncio.gather
calls_collect_initial_responses ==
    /\ call_pc = "collect_initial_responses"
    /\ call_tasks' = [d \in Debaters |-> [st |-> "pending", prompt |-> NoCallPrompt]]
    /\ call_pc' = "gather_initial"
    /\ UNCHANGED <<call_max_rounds, call_round, call_responses, call_feedback, call_orphans,
                   call_reached, call_failed, conversation_history, response_history,
                   calls_frame>>

\* DebateWorkflow._collect_rebuttals up to the await on asyncio.gather: every
\* call builds its prompt before the first inference returns
calls_collect_rebuttals ==
    /\ call_pc = "collect_rebuttals"
    /\ call_round' = call_round + 1
    /\ call_tasks' =
          [d \in Debaters |->
             [st |-> "pending",
              prompt |-> RebuttalPromptInputs(d, call_responses, call_feedback,
                                              response_history[d])]]
    /\ call_pc' = "gather_rebuttals"
    /\ UNCHANGED <<call_max_rounds, call_responses, call_feedback, call_orphans,
                   call_reached, call_failed, conversation_history, response_history,
                   calls_frame>>

\* mcp_context.conversation_history.append(f"{name}: {response}")
record_entry(log, entry) == Append(log, entry)

\* generate_initial_response / generate_rebuttal after the inference: the
\* response is appended to response_history and to the conversation log, or
\* the call raises
calls_task_complete(d) ==
    /\ call_pc \in {"gather_initial", "gather_rebuttals"}
    /\ call_tasks[d].st = "pending"
    /\ \/ /\ call_tasks' = [call_tasks EXCEPT ![d].st = "ok"]
          /\ response_history' =
                [response_history EXCEPT ![d] = Append(@, CallResponse(d, call_round))]
          /\ conversation_history' =
                record_entry(conversation_history, CallResponse(d, call_round))
       \/ /\ call_tasks' = [call_tasks EXCEPT ![d].st = "failed"]
          /\ UNCHANGED <<response_history, conversation_history>>
    /\ UNCHANGED <<call_pc, call_max_rounds, call_round, call_responses, call_feedback,
                   call_orphans, call_reached, call_failed, calls_frame>>

\* asyncio.gather resumes the collection node: the responses and the round
\* record are stored, or the node's except branch runs and the calls still
\* pending stay in flight; either way the next node is analyze_consensus
calls_gather ==
    /\ call_pc \in {"gather_initial", "gather_rebuttals"}
    /\ \/ \A d \in Debaters : call_tasks[d].st = "ok"
       \/ \E d \in Debaters : call_tasks[d].st = "failed"
    /\ IF \A d \in Debaters : call_tasks[d].st = "ok"
       THEN /\ call_responses' = [d \in Debaters |-> CallResponse(d, call_round)]
            /\ \E reached \in BOOLEAN : call_reached' = reached
            /\ UNCHANGED <<call_orphans, call_failed>>
       ELSE /\ call_failed' = TRUE
            /\ call_orphans' =
                  call_orphans \cup
                     {CallResponse(d, call_round) :
                        d \in {e \in Debaters : call_tasks[e].st = "pending"}}
            /\ UNCHANGED <<call_responses, call_reached>>
    /\ call_tasks' = [d \in Debaters |-> [st |-> "idle", prompt |-> NoCallPrompt]]
    /\ call_pc' = "analyze_consensus"
    /\ UNCHANGED <<call_max_rounds, call_round, call_feedback, conversation_history,
                   response_history, calls_frame>>

\* DebateWorkflow._analyze_consensus and the conditional edge: the round limit
\* first, then the verdict on debater_responses (none while the list is empty)
calls_analyze_consensus ==
    /\ call_pc = "analyze_consensus"
    /\ call_pc' = IF call_round >= call_max_rounds THEN "END"
                  ELSE IF call_responses # <<>> /\ call_reached THEN "END"
                  ELSE "generate_feedback"
    /\ UNCHANGED <<call_max_rounds, call_round, call_responses, call_feedback, call_tasks,
                   call_orphans, call_reached, call_failed, conversation_history,
                   response_history, calls_frame>>

\* DebateWorkflow._generate_feedback: state.orchestrator_feedback = feedback
calls_generate_feedback ==
    /\ call_pc = "generate_feedback"
    /\ call_feedback' = call_round
    /\ call_pc' = "collect_rebuttals"
    /\ UNCHANGED <<call_max_rounds, call_round, call_responses, call_tasks, call_orphans,
                   call_reached, call_failed, conversation_history, response_history,
                   calls_frame>>

\* a debater call abandoned by its gather returns or raises
calls_orphan_complete(o) ==
    /\ o \in call_orphans
    /\ call_orphans' = call_orphans \ {o}
    /\ \/ /\ response_history' =
                [response_history EXCEPT ![o.debater_name] = Append(@, o)]
          /\ conversation_history' = record_entry(conversation_history, o)
       \/ UNCHANGED <<response_history, conversation_history>>
    /\ UNCHANGED <<call_pc, call_max_rounds, call_round, call_responses, call_feedback,
                   call_tasks, call_reached, call_failed, calls_frame>>

NextCalls ==
    \/ calls_conduct_debate
    \/ calls_initialize_debate
    \/ calls_collect_initial_responses
    \/ \E d \in Debaters : calls_task_complete(d)
    \/ calls_gather
    \/ calls_analyze_consensus
    \/ calls_generate_feedback
    \/ calls_collect_rebuttals
    \/ \E o \in call_orphans : calls_orphan_complete(o)

SpecCalls == InitCalls /\ [][NextCalls]_vars

\* ------------------------------------------------- runs one after another
\* conduct_debate called again on the same DebateWorkflow after the previous
\* call returned.  A response is named by the run and the debater that
\* produced it (the responses of one debater in one run are not told apart);
\* a context field holds the set of runs whose data it has.
RunResponse(n, d) == [run |-> n, debater_name |-> d]

\* what a debater prompt quotes of the shared context and of the agent's own
\* history: _create_initial_prompt reads shared_knowledge, which nothing writes
InitialRunPrompt == [context |-> {}, previous |-> RunResponse(0, 0)]

\* _create_rebuttal_prompt: agreed_facts and disputed_points of the agent's
\* context, and response_history[-1] (run 0 for "None")
RebuttalRunPrompt(ctx, history) ==
    [context |-> ctx.agreed_facts \cup ctx.disputed_points,
     previous |-> IF history # <<>> THEN history[Len(history)] ELSE RunResponse(0, 0)]

\* response_history.append(response): of an agent's history only the last
\* element is ever read (response_history[-1]), and only that one is kept here
runs_append_response(history, response) == <<response>>

InitRuns ==
    /\ WorkflowAtRest
    /\ mcp_context = MCPContext
    /\ ctx_log = <<>>
    /\ engine_call = NoEngineCall
    /\ SharedAtRest
    /\ CallsAtRest
    /\ OuterAtRest

runs_frame ==
    <<workflow_vars, mcp_context, ctx_log, engine_call, shared_vars, call_feedback,
      call_reached, conversation_history, jobs_vars, rest_vars>>

\* DebateWorkflow.conduct_debate: a new DebateState, then graph.ainvoke
runs_conduct_debate ==
    /\ call_pc = "caller"
    /\ runs_started < MaxRuns
    /\ runs_started' = runs_started + 1
    \* max_rounds or Config.MAX_ROUNDS: a round limit up to MaxRoundsArg
    /\ \E limit \in 1..MaxRoundsArg : call_max_rounds' = limit
    /\ call_round' = 0
    /\ call_responses' = <<>>
    /\ call_pc' = "initialize_debate"
    /\ UNCHANGED <<call_tasks, call_orphans, call_failed, response_history, contexts,
                   agent_mcp_context, runs_frame>>

\* DebateWorkflow._initialize_debate: current_round = 1, a new MCPContext,
\* assigned to every debater agent and to the orchestrator agent
runs_initialize_debate ==
    /\ call_pc = "initialize_debate"
    /\ call_round' = 1
    /\ contexts' = [contexts EXCEPT ![runs_started] = NoContextData]
    /\ agent_mcp_context' = [a \in Agents |-> runs_started]
    /\ call_pc' = "collect_initial_responses"
    /\ UNCHANGED <<runs_started, call_max_rounds, call_responses, call_tasks, call_orphans,
                   call_failed, response_history, runs_frame>>

\* DebateWorkflow._collect_initial_responses up to the await on asyncio.gather
runs_collect_initial_responses ==
    /\ call_pc = "collect_initial_responses"
    /\ call_tasks' = [d \in Debaters |-> [st |-> "pending", prompt |-> InitialRunPrompt]]
    /\ call_pc' = "gather_initial"
    /\ UNCHANGED <<runs_started, call_max_rounds, call_round, call_responses, call_orphans,
                   call_failed, response_history, contexts, agent_mcp_context, runs_frame>>

\* DebateWorkflow._collect_rebuttals up to the await on asyncio.gather
runs_collect_rebuttals ==
    /\ call_pc = "collect_rebuttals"
    /\ call_round' = call_round + 1
    /\ call_tasks' =
          [d \in Debaters |->
             [st |-> "pending",
              prompt |-> RebuttalRunPrompt(contexts[agent_mcp_context[d]],
                                           response_history[d])]]
    /\ call_pc' = "gather_rebuttals"
    /\ UNCHANGED <<runs_started, call_max_rounds, call_responses, call_orphans, call_failed,
                   response_history, contexts, agent_mcp_context, runs_frame>>

\* DebaterAgent._update_mcp_context: the key concepts of a response of run n
\* go into the context the agent refers to now
runs_update_mcp_context(cs, d, n) ==
    [cs EXCEPT ![agent_mcp_context[d]].key_concepts = @ \cup {n}]

\* generate_initial_response / generate_rebuttal after the inference
runs_task_complete(d) ==
    /\ call_pc \in {"gather_initial", "gather_rebuttals"}
    /\ call_tasks[d].st = "pending"
    /\ \/ /\ call_tasks' = [call_tasks EXCEPT ![d].st = "ok"]
          /\ response_history' =
                [response_history EXCEPT
                   ![d] = runs_append_response(@, RunResponse(runs_started, d))]
          /\ contexts' = runs_update_mcp_context(contexts, d, runs_started)
       \/ /\ call_tasks' = [call_tasks EXCEPT ![d].st = "failed"]
          /\ UNCHANGED <<response_history, contexts>>
    /\ UNCHANGED <<runs_started, call_pc, call_max_rounds, call_round, call_responses,
                   call_orphans, call_failed, agent_mcp_context, runs_frame>>

\* asyncio.gather resumes the collection node; after a failed collection the
\* calls still pending stay in flight and the next node is analyze_consensus
runs_gather ==
    /\ call_pc \in {"gather_initial", "gather_rebuttals"}
    /\ \/ \A d \in Debaters : call_tasks[d].st = "ok"
       \/ \E d \in Debaters : call_tasks[d].st = "failed"
    /\ IF \A d \in Debaters : call_tasks[d].st = "ok"
       THEN /\ call_responses' =
                  [d \in Debaters |-> RunResponse(runs_started, d)]
            /\ UNCHANGED <<call_orphans, call_failed>>
       ELSE /\ call_failed' = TRUE
            /\ call_orphans' =
                  call_orphans \cup
                     {RunResponse(runs_started, d) :
                        d \in {e \in Debaters : call_tasks[e].st = "pending"}}
            /\ UNCHANGED call_responses
    /\ call_tasks' = [d \in Debaters |-> [st |-> "idle", prompt |-> NoCallPrompt]]
    /\ call_pc' = "analyze_consensus"
    /\ UNCHANGED <<runs_started, call_max_rounds, call_round, response_history, contexts,
                   agent_mcp_context, runs_frame>>

\* DebateWorkflow._analyze_consensus and the conditional edge: the round limit
\* first, then the verdict on debater_responses (none while the list is empty)
runs_analyze_consensus ==
    /\ call_pc = "analyze_consensus"
    /\ \E reached \in BOOLEAN :
          call_pc' = IF call_round >= call_max_rounds THEN "END"
                     ELSE IF call_responses # <<>> /\ reached THEN "END"
                     ELSE "generate_feedback"
    /\ UNCHANGED <<runs_started, call_max_rounds, call_round, call_responses, call_tasks,
                   call_orphans, call_failed, response_history, contexts,
                   agent_mcp_context, runs_frame>>

\* DebateWorkflow._generate_feedback: the orchestrator adds the disputed
\* points it finds, if any, to the context it refers to
runs_generate_feedback ==
    /\ call_pc = "generate_feedback"
    /\ \E found \in BOOLEAN :
          contexts' = IF found
                      THEN [contexts EXCEPT
                              ![agent_mcp_context[Orchestrator]].disputed_points =
                                  @ \cup {runs_started}]
                      ELSE contexts
    /\ call_pc' = "collect_rebuttals"
    /\ UNCHANGED <<runs_started, call_max_rounds, call_round, call_responses, call_tasks,
                   call_orphans, call_failed, response_history, agent_mcp_context,
                   runs_frame>>

\* the summary node and the return of conduct_debate: the DebateState is
\* dropped, the workflow object and its agents stay
runs_conduct_debate_return ==
    /\ call_pc = "END"
    /\ call_pc' = "caller"
    /\ UNCHANGED <<runs_started, call_max_rounds, call_round, call_responses, call_tasks,
                   call_orphans, call_failed, response_history, contexts,
                   agent_mcp_context, runs_frame>>

\* a debater call abandoned by its gather returns or raises, in its own run
\* or in a later one
runs_orphan_complete(o) ==
    /\ o \in call_orphans
    /\ call_orphans' = call_orphans \ {o}
    /\ \/ /\ response_history' =
                [response_history EXCEPT ![o.debater_name] = runs_append_response(@, o)]
          /\ contexts' = runs_update_mcp_context(contexts, o.debater_name, o.run)
       \/ UNCHANGED <<response_history, contexts>>
    /\ UNCHANGED <<runs_started, call_pc, call_max_rounds, call_round, call_responses,
                   call_tasks, call_failed, agent_mcp_context, runs_frame>>

NextRuns ==
    \/ runs_conduct_debate
    \/ runs_initialize_debate
    \/ runs_collect_initial_responses
    \/ \E d \in Debaters : runs_task_complete(d)
    \/ runs_gather
    \/ runs_analyze_consensus
    \/ runs_generate_feedback
    \/ runs_collect_rebuttals
    \/ runs_conduct_debate_return
    \/ \E o \in call_orphans : runs_orphan_complete(o)

SpecRuns == InitRuns /\ [][NextRuns]_vars

\* ------------------------------------------- the job tracker of api/main.py
\* progress is kept in hundredths (0.1 is 10, 1.0 is 100).  The code between
\* two awaits of a coroutine runs without interruption on the event loop, so
\* each action below is one such stretch.

\* seconds since started_at at which a progress task may wake up
ElapsedSeconds == {2, 45, 400}

Min(a, b) == IF a < b THEN a ELSE b

\* track_debate_progress: 10% at the start, 80% spread over the rounds at 45
\* seconds a round, capped at 90% until the job completes
total_progress(elapsed, rounds) ==
    LET completed45 == Min(elapsed, 45 * rounds)
        round_progress == (completed45 * 80) \div (45 * rounds)
    IN  Min(10 + round_progress, 90)

InitJobs ==
    /\ WorkflowAtRest
    /\ mcp_context = MCPContext
    /\ ctx_log = <<>>
    /\ engine_call = NoEngineCall
    /\ SharedAtRest
    /\ CallsAtRest
    /\ OuterAtRest

jobs_frame ==
    <<workflow_vars, mcp_context, ctx_log, engine_call, shared_vars, calls_vars,
      runs_vars, rest_vars>>

\* start_debate of api/main.py: the entry is created with status "starting"
\* and run_debate is handed to the background tasks
jobs_start_debate(j) ==
    /\ current_debates[j].status = "absent"
    /\ \E max_rounds_arg \in 0..MaxRoundsArg :
          current_debates' =
              [current_debates EXCEPT
                 ![j] = [status |-> "starting", progress |-> 0,
                         max_rounds |-> IF max_rounds_arg # 0 THEN max_rounds_arg ELSE 3,
                         result |-> "none"]]
    /\ run_debate_pc' = [run_debate_pc EXCEPT ![j] = "scheduled"]
    /\ UNCHANGED <<progress_task, debate_outcome, late_write, jobs_frame>>

\* run_debate up to its first await: status "running", progress 0.1, the
\* progress task and the debate task are created and wait_for is awaited
jobs_run_debate(j) ==
    /\ run_debate_pc[j] = "scheduled"
    /\ current_debates' =
          [current_debates EXCEPT ![j].status = "running", ![j].progress = 10]
    /\ progress_task' = [progress_task EXCEPT ![j] = "created"]
    /\ run_debate_pc' = [run_debate_pc EXCEPT ![j] = "wait_for"]
    /\ UNCHANGED <<debate_outcome, late_write, jobs_frame>>

\* the while test of track_debate_progress
tracker_continues(job) == IF job.status = "running" THEN "sleeping" ELSE "finished"

\* track_debate_progress starts: the while test, then asyncio.sleep
jobs_tracker_start(j) ==
    /\ progress_task[j] = "created"
    /\ progress_task' = [progress_task EXCEPT ![j] = tracker_continues(current_debates[j])]
    /\ UNCHANGED <<current_debates, run_debate_pc, debate_outcome, late_write, jobs_frame>>

\* track_debate_progress wakes from asyncio.sleep: it writes the estimated
\* progress, tests the status again and sleeps or ends
jobs_tracker_wake(j) ==
    /\ progress_task[j] = "sleeping"
    /\ \E elapsed \in ElapsedSeconds :
          current_debates' =
              [current_debates EXCEPT
                 ![j].progress = total_progress(elapsed, current_debates[j].max_rounds)]
    /\ late_write' = [late_write EXCEPT ![j] = @ \/ current_debates[j].status # "running"]
    /\ progress_task' = [progress_task EXCEPT ![j] = tracker_continues(current_debates[j])]
    /\ UNCHANGED <<run_debate_pc, debate_outcome, jobs_frame>>

\* cancel() that does nothing
cancel_ignored(task) == task

\* progress_task.cancel(): CancelledError is thrown into the task where it
\* waits or before it has started; a task that has ended stays ended
cancel(task) == IF task \in {"created", "sleeping"} THEN "cancelled" ELSE task

\* how the awaited conduct_debate call ends: it returns a DebateResult with a
\* terminal final_status, raises (system initialization failed), or is
\* cancelled by wait_for after 300 seconds
DebateOutcomes == TerminalStatus \cup {"raised", "timeout"}

\* run_debate from the return of asyncio.wait_for to its end: the progress
\* task is cancelled, then the entry is marked completed with the result, or
\* failed after a timeout or an exception
run_debate_resumes(j, outcome) ==
    /\ run_debate_pc[j] = "wait_for"
    /\ debate_outcome' = [debate_outcome EXCEPT ![j] = outcome]
    /\ progress_task' = [progress_task EXCEPT ![j] = cancel(@)]
    /\ current_debates' =
          IF outcome \in TerminalStatus
          THEN [current_debates EXCEPT ![j].status = "completed", ![j].progress = 100,
                                       ![j].result = outcome]
          ELSE [current_debates EXCEPT ![j].status = "failed", ![j].progress = 0]
    /\ run_debate_pc' = [run_debate_pc EXCEPT ![j] = "done"]
    /\ UNCHANGED <<late_write, jobs_frame>>

NextJobs ==
    \/ \E j \in DebateIds : jobs_start_debate(j)
    \/ \E j \in DebateIds : jobs_run_debate(j)
    \/ \E j \in DebateIds : jobs_tracker_start(j)
    \/ \E j \in DebateIds : jobs_tracker_wake(j)
    \/ \E j \in DebateIds, outcome \in DebateOutcomes : run_debate_resumes(j, outcome)

SpecJobs == InitJobs /\ [][NextJobs]_vars

\* ------------------------------------------------- the REST API of api.py
\* the question strings a DebateRequest carries
Questions == {<<>>, <<" ">>, <<" ", " ">>, <<"q">>, <<" ", "q">>, <<"q", " ">>}

RECURSIVE lstrip(_)
\* str.lstrip(): leading whitespace removed
lstrip(s) ==
    IF s = <<>> THEN <<>>
    ELSE IF Head(s) = " " THEN lstrip(Tail(s))
    ELSE s

RECURSIVE rstrip(_)
\* str.rstrip(): trailing whitespace removed
rstrip(s) ==
    IF s = <<>> THEN <<>>
    ELSE IF s[Len(s)] = " " THEN rstrip(SubSeq(s, 1, Len(s) - 1))
    ELSE s

\* str.strip()
strip(s) == rstrip(lstrip(s))

\* list.remove(x) guarded by "if x in list"
queue_remove(queue, x) == SelectSeq(queue, LAMBDA y : y # x)

\* x in debate_queue
in_queue(x) == \E k \in 1..Len(debate_queue) : debate_queue[k] = x

\* a raise of HTTPException(status_code, detail) inside a handler whose only
\* handler is "except Exception": HTTPException is an Exception, so it is
\* caught and HTTPException(500, "Error ...: " + str(e)) is raised instead
except_Exception(status_code, detail) ==
    [status_code |-> 500, detail |-> "Error starting debate: " \o detail]

InitRest ==
    /\ WorkflowAtRest
    /\ mcp_context = MCPContext
    /\ ctx_log = <<>>
    /\ engine_call = NoEngineCall
    /\ SharedAtRest
    /\ CallsAtRest
    /\ OuterAtRest

rest_frame ==
    <<workflow_vars, mcp_context, ctx_log, engine_call, shared_vars, calls_vars,
      runs_vars, jobs_vars>>

\* start_debate of api.py: a fresh uuid, the validation of the question, and
\* for a question that passes it the queue entry and the background task
rest_start_debate(debate_id, question) ==
    /\ background_pc[debate_id] = "none"
    /\ IF strip(question) = <<>>
       THEN LET raised == except_Exception(400, "Question cannot be empty") IN
            /\ http_response' = [request |-> "start_debate", id |-> 0, question |-> question,
                                 status_code |-> raised.status_code, detail |-> raised.detail]
            /\ UNCHANGED <<debate_queue, background_pc>>
       ELSE /\ debate_queue' = Append(debate_queue, debate_id)
            /\ background_pc' = [background_pc EXCEPT ![debate_id] = "scheduled"]
            /\ http_response' = [request |-> "start_debate", id |-> debate_id, question |-> question,
                                 status_code |-> 200, detail |-> "started"]
    /\ UNCHANGED <<active_debates, system_initialized, deleted, rest_frame>>

\* LLMDebateSystem.initialize: self.initialized is set only when the Ollama
\* connection and every model are available
system_initialize(was_initialized, ok) == was_initialized \/ ok

\* conduct_debate_background up to the await of conduct_debate:
\* "if not debate_system.initialized: await debate_system.initialize()",
\* whose result is not looked at
rest_background_start(debate_id) ==
    /\ background_pc[debate_id] = "scheduled"
    /\ \E ok \in BOOLEAN : system_initialized' = system_initialize(system_initialized, ok)
    /\ background_pc' = [background_pc EXCEPT ![debate_id] = "running"]
    /\ UNCHANGED <<debate_queue, active_debates, deleted, http_response, rest_frame>>

\* the rest of conduct_debate_background: LLMDebateSystem.conduct_debate
\* tries initialize once more and raises RuntimeError when it fails, which
\* the except branch answers by removing the id from the queue; otherwise
\* the DebateResult is stored and the id removed from the queue, with no
\* await between the two statements
rest_background_finish(debate_id) ==
    /\ background_pc[debate_id] = "running"
    /\ \E ok \in BOOLEAN, final_status \in TerminalStatus :
        /\ system_initialized' = system_initialize(system_initialized, ok)
        /\ IF system_initialized'
           THEN active_debates' = [active_debates EXCEPT ![debate_id] = final_status]
           ELSE UNCHANGED active_debates
    /\ debate_queue' = queue_remove(debate_queue, debate_id)
    /\ background_pc' = [background_pc EXCEPT ![debate_id] = "done"]
    /\ UNCHANGED <<deleted, http_response, rest_frame>>

\* get_debate_status of api.py
rest_get_debate_status(debate_id) ==
    /\ http_response' =
         IF in_queue(debate_id)
         THEN [request |-> "get_debate_status", id |-> debate_id, question |-> <<>>,
               status_code |-> 200, detail |-> "in_progress"]
         ELSE IF active_debates[debate_id] # "absent"
         THEN [request |-> "get_debate_status", id |-> debate_id, question |-> <<>>,
               status_code |-> 200, detail |-> active_debates[debate_id]]
         ELSE [request |-> "get_debate_status", id |-> debate_id, question |-> <<>>,
               status_code |-> 404, detail |-> "Debate not found"]
    /\ UNCHANGED <<debate_queue, active_debates, background_pc, system_initialized,
                   deleted, rest_frame>>

\* delete_debate of api.py
rest_delete_debate(debate_id) ==
    /\ IF active_debates[debate_id] # "absent"
       THEN /\ active_debates' = [active_debates EXCEPT ![debate_id] = "absent"]
            /\ deleted' = deleted \cup {debate_id}
            /\ http_response' = [request |-> "delete_debate", id |-> debate_id, question |-> <<>>,
                                 status_code |-> 200, detail |-> "deleted"]
       ELSE /\ UNCHANGED <<active_debates, deleted>>
            /\ http_response' =
                 IF in_queue(debate_id)
                 THEN [request |-> "delete_debate", id |-> debate_id, question |-> <<>>,
                       status_code |-> 400, detail |-> "Cannot delete debate in progress"]
                 ELSE [request |-> "delete_debate", id |-> debate_id, question |-> <<>>,
                       status_code |-> 404, detail |-> "Debate not found"]
    /\ UNCHANGED <<debate_queue, background_pc, system_initialized, rest_frame>>

NextRest ==
    \/ \E debate_id \in DebateIds, question \in Questions : rest_start_debate(debate_id, question)
    \/ \E debate_id \in DebateIds : rest_background_start(debate_id)
    \/ \E debate_id \in DebateIds : rest_background_finish(debate_id)
    \/ \E debate_id \in DebateIds : rest_get_debate_status(debate_id)
    \/ \E debate_id \in DebateIds : rest_delete_debate(debate_id)

SpecRest == InitRest /\ [][NextRest]_vars

\* ================================================================ claims
\* the run returned through the normal path of conduct_debate
ReturnedNormally == pc = "returned" /\ ~ainvoke_raised

\* the analysis attached to the last round record reports consensus
LatestReached(rh) == rh # <<>> /\ rh[Len(rh)].consensus_analysis.consensus_reached

\* C1: whatever inference calls fail, the final_status of a returned result is
\* ConsensusReached, MaxRoundsExceeded or Failed, never Initializing or InProgress.
C1_ReturnedStatusIsTerminal ==
    pc = "returned" => result.final_status \in TerminalStatus

\* a run in which a debater call, a feedback call and the summary call all
\* failed has returned through the normal path
C1_Witness ==
    /\ ReturnedNormally
    /\ inference_failed = {"debater", "feedback", "summary"}
    /\ result.final_status \in TerminalStatus

\* C2: if a debater call fails during a collection step, the returned result
\* has final_status Failed and its final_summary names the failure.
C2_DebaterFailureFailsRun ==
    (pc = "returned" /\ collect_failed) =>
        /\ result.final_status = ERROR
        /\ result.final_summary.kind = "error"

\* C3: once status has been set to a terminal value no later step changes it:
\* the status on return is the first terminal status that was set.
C3_FirstTerminalStatusIsFinal ==
    (pc = "returned" /\ first_terminal # "none") => result.final_status = first_terminal

\* C4: after a collection step has failed, no further debater call, consensus
\* analysis, feedback call or summary call is issued in that run.
C4_NoCallAfterCollectionFailure ==
    post_failure_calls = {}

\* C5: the caller-facing conduct_debate never raises, and every exception raised
\* during the run yields a returned result with final_status Failed whose
\* final_summary contains the error text.
C5_NeverRaisesAlwaysFailed ==
    /\ pc # "raised"
    /\ (pc = "returned" /\ (collect_failed \/ ainvoke_raised)) =>
          /\ result.final_status = ERROR
          /\ result.final_summary.kind = "error"

C7_RoundsCappedByMaxRounds ==
    /\ pc = "returned" =>
          /\ result.total_rounds <= max_rounds
          /\ Len(result.rounds) <= max_rounds
    /\ pc = "collect_rebuttals" => current_round < max_rounds

\* a run of at least two rounds that used every round it was allowed
C7_Witness ==
    /\ ReturnedNormally
    /\ max_rounds >= 2
    /\ result.total_rounds = max_rounds
    /\ Len(result.rounds) = max_rounds

\* C8: when all inference calls succeed and the analysis of round r reports
\* consensus, the run stops after round r with final_status ConsensusReached and
\* exactly r round records, for every r from 1 to max_rounds.
C8_ConsensusStopsAtEveryRound ==
    (ReturnedNormally /\ inference_failed = {}) =>
        \A r \in 1..Len(result.rounds) :
            result.rounds[r].consensus_analysis.consensus_reached =>
                /\ result.final_status = CONSENSUS_REACHED
                /\ Len(result.rounds) = r

C10_NoConsensusRunsAllRounds ==
    (/\ ReturnedNormally
     /\ inference_failed = {}
     /\ \A r \in 1..Len(result.rounds) :
           ~result.rounds[r].consensus_analysis.consensus_reached) =>
        /\ result.final_status = MAX_ROUNDS_EXCEEDED
        /\ Len(result.rounds) = max_rounds
        /\ Len(result.consensus_evolution) = max_rounds
        /\ \A i \in 1..Len(result.consensus_evolution) :
              result.consensus_evolution[i] < CONSENSUS_THRESHOLD

\* a three-round run without consensus and without any failed call has returned
C10_Witness ==
    /\ ReturnedNormally
    /\ inference_failed = {}
    /\ max_rounds = 3
    /\ Len(result.rounds) = 3
    /\ \A r \in 1..3 : ~result.rounds[r].consensus_analysis.consensus_reached
    /\ result.final_status = MAX_ROUNDS_EXCEEDED
    /\ result.consensus_evolution[3] > 0

\* the round in which the feedback step before the current rebuttal collection ran
FeedbackRound == IF pc = "collect_rebuttals" THEN current_round ELSE current_round - 1

\* C11: when the feedback call of round r < max_rounds fails, the run does not
\* become Failed for it, the fallback feedback with the average similarity and the
\* threshold is stored in the record of round r, and the rebuttal calls of round
\* r+1 are started with that fallback as their feedback argument.
C11_FallbackFeedbackStoredAndUsed ==
    (/\ pc \in {"collect_rebuttals", "gather_rebuttals"}
     /\ orchestrator_feedback.kind = "fallback") =>
        /\ status = ERROR => collect_failed
        /\ orchestrator_feedback.target = CONSENSUS_THRESHOLD
        /\ \E i \in 1..Len(rounds_history) :
              /\ rounds_history[i].round_number = FeedbackRound
              /\ rounds_history[i].orchestrator_feedback = orchestrator_feedback
              /\ orchestrator_feedback.similarity =
                    rounds_history[i].consensus_analysis.average_similarity
        /\ pc = "gather_rebuttals" =>
              \A d \in Debaters :
                 tasks[d].st # "idle" => tasks[d].feedback = orchestrator_feedback

C13_TrajectoryMatchesRounds ==
    /\ pc \in {"generate_feedback", "finalize_debate", "handle_max_rounds"} =>
          Len(consensus_scores) = Len(rounds_history)
    /\ pc = "returned" => Len(result.consensus_evolution) = Len(result.rounds)

\* C14: in every state and in every returned result the i-th round record is
\* numbered i (counting from 1): no gap, no repeat, also after a failed collection.
C14_RoundNumbersConsecutive ==
    /\ \A i \in 1..Len(rounds_history) : rounds_history[i].round_number = i
    /\ pc = "returned" =>
          \A i \in 1..Len(result.rounds) : result.rounds[i].round_number = i

C16_FanInBarrier ==
    pc \in {"analyze_consensus", "generate_feedback", "finalize_debate",
            "handle_max_rounds"} =>
        /\ orphans = {}
        /\ \A d \in Debaters : tasks[d].st # "pending"

\* the positions between the fan-out of a collection node and its fan-in
InFlight(at) == at \in {"gather_initial", "gather_rebuttals"}

\* what the prompts of the collection in progress read of a context
PromptContext(at, ctx) ==
    IF at = "gather_initial" THEN InitialPromptContext(ctx) ELSE RebuttalPromptContext(ctx)

\* C18 as stated: from the fan-out to the fan-in of a round no field of the shared
\* context changes, so all calls of the round have built their prompt from the
\* same content of the context.
C18_ContextFrozenInFlight ==
    [][(InFlight(pc) /\ pc' = pc) =>
          /\ mcp_context' = mcp_context
          /\ \A d \in Debaters :
                tasks'[d].st # "idle" =>
                   tasks'[d].prompt_context = PromptContext(pc, mcp_context')]_vars

\* C18: in one run the fields of the shared context that a prompt reads (agreed
\* facts and disputed points, shared knowledge for the first round) change only at
\* initialization and in the orchestrator's feedback step; from fan-out to fan-in
\* they are what every call of the round has read, while the calls themselves add
\* key concepts as they return.
C18_PromptFieldsFrozenInFlight ==
    [][/\ InFlight(pc') =>
             \A d \in Debaters :
                tasks'[d].st # "idle" =>
                   tasks'[d].prompt_context = PromptContext(pc', mcp_context')
       /\ (\/ RebuttalPromptContext(mcp_context') # RebuttalPromptContext(mcp_context)
           \/ InitialPromptContext(mcp_context') # InitialPromptContext(mcp_context)) =>
             pc \in {"initialize_debate", "generate_feedback"}]_vars

\* a rebuttal round is in flight: one call has returned and added a key concept,
\* another is still awaiting, and the prompts carry the disputed points written by
\* the feedback step
C18_Witness ==
    /\ pc = "gather_rebuttals"
    /\ \E d, e \in Debaters : tasks[d].st = "ok" /\ tasks[e].st = "pending"
    /\ mcp_context.key_concepts # <<>>
    /\ mcp_context.disputed_points # <<>>
    /\ \A d \in Debaters : tasks[d].prompt_context.disputed_points = mcp_context.disputed_points

\* the number of positions of list that hold x
RECURSIVE Occurrences(_, _)
Occurrences(list, x) ==
    IF list = <<>> THEN 0
    ELSE (IF Head(list) = x THEN 1 ELSE 0) + Occurrences(Tail(list), x)

NoDuplicates(list) == \A i, j \in 1..Len(list) : list[i] = list[j] => i = j

\* C19: after any sequence of add_agreed_fact, add_disputed_point and key-concept
\* updates no string is twice in agreed_facts, disputed_points or key_concepts,
\* and add_agreed_fact(x) applied twice gives the list of one application, which
\* holds x exactly once.
C19_ContextListsHaveNoDuplicates ==
    /\ NoDuplicates(mcp_context.agreed_facts)
    /\ NoDuplicates(mcp_context.disputed_points)
    /\ NoDuplicates(mcp_context.key_concepts)
    /\ \A x \in AgreedFactArgs :
          LET once == add_agreed_fact(mcp_context, x)
              twice == add_agreed_fact(once, x)
          IN  /\ twice = once
              /\ Occurrences(twice.agreed_facts, x) = 1

\* the same fact, the same disputed point and the same text have each been
\* applied more than once
C19_Witness ==
    /\ \E i, j \in 1..Len(ctx_log) :
          i < j /\ ctx_log[i] = ctx_log[j] /\ ctx_log[i].op = "add_agreed_fact"
    /\ Len(mcp_context.agreed_facts) = 1
    /\ Len(ctx_log) = MaxContextOps

\* C20: analyze_consensus on fewer than 2 responses returns consensus_reached
\* false, analysis_method "insufficient_data", an empty similarity map and average
\* similarity 0, whatever the threshold.
C20_FewerThanTwoIsInsufficientData ==
    (engine_call.returned /\ Len(engine_call.responses) < 2) =>
        /\ ~engine_call.analysis.consensus_reached
        /\ engine_call.analysis.analysis_method = "insufficient_data"
        /\ engine_call.analysis.similarity_scores = <<>>
        /\ engine_call.analysis.average_similarity = 0

\* the engine has returned on a single response under the threshold 0, which an
\* average of 0 would meet
C20_Witness ==
    /\ engine_call.returned
    /\ Len(engine_call.responses) = 1
    /\ engine_call.threshold = 0
    /\ engine_call.analysis.analysis_method = "insufficient_data"
\* a call that has initialized the workflow for itself and has not ended
InProgress(r) == run_pc[r] \notin {"caller", "initialize_debate", "END"}

\* C17: with two conduct_debate calls running on the same workflow, while a call
\* is in progress the shared context (agreed facts, disputed points, key
\* concepts, conversation log) holds only data written by that call, and the
\* context fields and the previous responses its rebuttal prompts have read were
\* written by that call.
C17_ConcurrentRunsIndependent ==
    \A r \in Runs :
       InProgress(r) =>
          /\ shared_writers.agreed_facts \subseteq {r}
          /\ shared_writers.disputed_points \subseteq {r}
          /\ shared_writers.key_concepts \subseteq {r}
          /\ shared_writers.conversation_history \subseteq {r}
          /\ run_prompt[r].context_writers \subseteq {r}
          /\ run_pc[r] = "gather_rebuttals" =>
                \A d \in Debaters : run_prompt[r].previous[d] = r

\* identical response texts: every response of the list carries the same text
AllSameText(responses) ==
    \A i, j \in 1..Len(responses) : responses[i].response = responses[j].response

\* C21: for every list of N >= 2 responses analyze_consensus returns a
\* similarity map with exactly one score for each pair i < j, N*(N-1)/2 entries,
\* an average_similarity that is the mean of those scores, and consensus_reached
\* exactly when average_similarity >= threshold.
C21_OneScorePerPairMeanAndVerdict ==
    LET n == Len(engine_call.responses)
        a == engine_call.analysis
    IN (engine_call.returned /\ n >= 2) =>
          /\ DOMAIN a.similarity_scores = Pairs(n)
          /\ 2 * Cardinality(DOMAIN a.similarity_scores) = n * (n - 1)
          /\ a.average_similarity = Mean(a.similarity_scores)
          /\ a.consensus_reached <=> (a.average_similarity >= engine_call.threshold)

\* C22: for N >= 2 responses that all carry the same text, analyze_consensus
\* returns average_similarity 1.0 and consensus_reached = (1.0 >= threshold),
\* under the semantic and under the TF-IDF strategy.
C22_IdenticalTextsAverageOne ==
    LET a == engine_call.analysis
    IN (/\ engine_call.returned
        /\ Len(engine_call.responses) >= 2
        /\ AllSameText(engine_call.responses)) =>
          /\ a.average_similarity = 1000
          /\ a.consensus_reached <=> (1000 >= engine_call.threshold)

\* C23: one call of analyze_responses_and_provide_feedback changes agreed_facts
\* only when its analysis reports consensus and disputed_points only when it
\* does not, never both, and returns should_continue = not consensus_reached.
C23_EvaluateWritesOneListAndReturnsNotReached ==
    [][(~engine_call.evaluated /\ engine_call'.evaluated) =>
          LET reached == engine_call'.evaluation.analysis.consensus_reached
              agreed_written == mcp_context'.agreed_facts # mcp_context.agreed_facts
              disputed_written == mcp_context'.disputed_points # mcp_context.disputed_points
          IN /\ agreed_written => reached
             /\ disputed_written => ~reached
             /\ ~(agreed_written /\ disputed_written)
             /\ engine_call'.evaluation.should_continue = ~reached
             /\ mcp_context'.key_concepts = mcp_context.key_concepts
             /\ mcp_context'.shared_knowledge = mcp_context.shared_knowledge]_vars

\* the orchestrator has evaluated responses that agree under the threshold and
\* contradict each other in their words: agreed facts were added, the disputed
\* points are those of before the call
C23_Witness ==
    /\ engine_call.evaluated
    /\ engine_call.evaluation.analysis.consensus_reached
    /\ ~engine_call.evaluation.should_continue
    /\ identify_disagreement_areas(engine_call.responses) # <<>>
    /\ Len(mcp_context.agreed_facts) > 1
    /\ mcp_context.disputed_points = <<EarlierDisputedPoint>>

\* the last entry of a consensus trajectory, 0 for the empty trajectory
LastScore(scores) == IF scores # <<>> THEN scores[Len(scores)] ELSE 0

\* C24: when the graph has ended through _handle_max_rounds, final_summary is
\* the summary text followed by the note, which states max_rounds and the last
\* entry of the consensus trajectory (0 when it is empty); when it has ended
\* through _finalize_debate the summary carries no note.  The same holds of the
\* summary in the returned result.
C24_NoteOnMaxRoundsPathOnly ==
    /\ pc = "END" =>
          /\ final_summary.kind \in {"llm", "fallback"}
          /\ status = MAX_ROUNDS_EXCEEDED =>
                /\ final_summary.note
                /\ final_summary.note_rounds = max_rounds
                /\ final_summary.note_score = LastScore(consensus_scores)
          /\ status = CONSENSUS_REACHED => ~final_summary.note
    /\ ReturnedNormally =>
          /\ result.final_status = MAX_ROUNDS_EXCEEDED =>
                /\ result.final_summary.note
                /\ result.final_summary.note_score = LastScore(result.consensus_evolution)
          /\ result.final_status = CONSENSUS_REACHED => ~result.final_summary.note

\* a run of two rounds whose similarity changed has ended through
\* _handle_max_rounds: the note quotes the second score
C24_Witness ==
    /\ pc = "END"
    /\ status = MAX_ROUNDS_EXCEEDED
    /\ Len(consensus_scores) = 2
    /\ consensus_scores[1] # consensus_scores[2]
    /\ final_summary.note
    /\ final_summary.note_score = consensus_scores[2]

\* a round record holds one response per configured debater, in configuration
\* order, each stamped with the round number of the record
WellFormedRecord(rec) ==
    /\ Len(rec.debater_responses) = NumDebaters
    /\ \A d \in Debaters :
          /\ rec.debater_responses[d].debater_name = d
          /\ rec.debater_responses[d].round_number = rec.round_number

\* C25: every round record of a returned result holds exactly one response per
\* configured debater, in configuration order, each carrying the round_number
\* of its record; within one collection step every debater has one call, which
\* invokes its inference exactly once.
C25_OneResponsePerDebaterPerRound ==
    /\ \A i \in 1..Len(rounds_history) : WellFormedRecord(rounds_history[i])
    /\ pc = "returned" =>
          \A i \in 1..Len(result.rounds) : WellFormedRecord(result.rounds[i])
    /\ pc \in {"gather_initial", "gather_rebuttals"} =>
          \A d \in Debaters : tasks[d].st # "idle" /\ tasks[d].invocations = 1
    /\ pc \notin {"gather_initial", "gather_rebuttals"} =>
          \A d \in Debaters : tasks[d].st = "idle"

\* a result with two round records has been returned, the inference of a
\* debater having failed in between
C25_Witness ==
    /\ ReturnedNormally
    /\ Len(result.rounds) = 2
    /\ result.rounds[2].round_number = 3
    /\ "debater" \in inference_failed

\* a is an initial segment of b
IsPrefix(a, b) == Len(a) <= Len(b) /\ SubSeq(b, 1, Len(a)) = a

\* C26: within one run the conversation log is append-only and never
\* deduplicated: every successful debater inference appends exactly one entry,
\* no entry is removed or changed, the entries of round r precede those of
\* round r+1, and after R fully successful rounds of N debaters it has R*N
\* entries.
C26_ConversationLogAppendOnlyInRoundOrder ==
    [][/\ call_pc # "initialize_debate" =>
             IsPrefix(conversation_history, conversation_history')
       /\ \A d \in Debaters :
             (call_tasks[d].st = "pending" /\ call_tasks'[d].st = "ok") =>
                conversation_history' =
                   Append(conversation_history, CallResponse(d, call_round))
       /\ \A i, j \in 1..Len(conversation_history') :
             i < j => conversation_history'[i].round_number
                         <= conversation_history'[j].round_number
       /\ (~call_failed' /\ call_pc' = "analyze_consensus") =>
             Len(conversation_history') = call_round' * NumDebaters]_vars

\* C27: the rebuttal prompt of a debater in round r+1 is built from exactly the
\* round-r responses of the other debaters, the orchestrator feedback written
\* in round r, and the debater's own round-r response as its previous response.
C27_RebuttalPromptFromPreviousRound ==
    call_pc = "gather_rebuttals" =>
       \A d \in Debaters :
          /\ call_tasks[d].prompt.others =
                {CallResponse(e, call_round - 1) : e \in Debaters \ {d}}
          /\ call_tasks[d].prompt.feedback = call_round - 1
          /\ call_tasks[d].prompt.previous = CallResponse(d, call_round - 1)

\* the run has ended: conduct_debate has returned a result or raised
RunEnded == pc \in {"returned", "raised"}

\* the nodes the run has entered stay within the bounds of max_rounds
StepBounds ==
    /\ steps.collect <= max_rounds
    /\ steps.collect >= 1 => steps.feedback <= max_rounds - 1
    /\ steps.collect = 0 => steps.feedback = 0
    /\ steps.feedback <= steps.collect
    /\ steps.summary <= 1
    /\ ReturnedNormally => steps.summary = 1 /\ steps.collect >= 1
    /\ (pc = "returned" /\ ainvoke_raised) => steps.summary = 0

\* the position in the graph, later nodes of a round weighing less
NodeWeight ==
    CASE pc = "collect_initial_responses" -> 19
      [] pc \in {"gather_initial", "gather_rebuttals"} ->
            10 + Cardinality({d \in Debaters : tasks[d].st = "pending"})
      [] pc = "analyze_consensus" -> 9
      [] pc = "generate_feedback" -> 8
      [] pc = "collect_rebuttals" -> 7
      [] pc \in {"finalize_debate", "handle_max_rounds"} -> 6
      [] pc = "END" -> 5
      [] OTHER -> 0

\* a measure of the work the run has left: the rounds left, the position in the
\* round, and the abandoned calls still in flight
WorkLeft ==
    Cardinality(orphans) +
    4 * (CASE pc = "caller" -> 20 * (MAX_ROUNDS + MaxRoundsArg) + 40
                               + (IF initialized THEN 0 ELSE 1)
           [] pc = "initialize_debate" -> 20 * (MAX_ROUNDS + MaxRoundsArg) + 20
           [] RunEnded -> 0
           [] OTHER -> 20 * (max_rounds - current_round) + NodeWeight)

\* C28 as stated: every run terminates, given that each inference call returns
\* or fails, after at most max_rounds collection steps (successful or failed),
\* at most max_rounds - 1 feedback steps and exactly one summary step.
C28_EveryRunEndsAfterOneSummaryStep ==
    /\ [](/\ StepBounds
          /\ pc = "returned" => steps.summary = 1
          /\ WorkLeft >= 0
          /\ ~RunEnded => ENABLED <<Next>>_vars)
    /\ [][WorkLeft' < WorkLeft]_vars

\* C28, amended: every run terminates, given that each inference call returns
\* or fails: every step of the run or of an abandoned call lessens a measure
\* that is never negative, and a run that has not ended can take a step.  The
\* run enters at most max_rounds collection nodes (successful or failed), at
\* most max_rounds - 1 feedback nodes and at most one summary node: exactly one
\* when the graph ran to its end, none when graph.ainvoke raised.
C28_RunTerminatesWithinStepBounds ==
    /\ [](StepBounds /\ WorkLeft >= 0 /\ (~RunEnded => ENABLED <<Next>>_vars))
    /\ [][WorkLeft' < WorkLeft]_vars

\* a run of three rounds has returned after three collections, one of them
\* failed, two feedback steps and one summary step
C28_Witness ==
    /\ ReturnedNormally
    /\ collect_failed
    /\ steps = [collect |-> 3, feedback |-> 2, summary |-> 1]

C30_StrategiesByBand ==
    engine_call.suggested =>
       LET avg == engine_call.suggestion.analysis.average_similarity
           strategies == engine_call.suggestion.strategies
       IN /\ avg < 300 => strategies = LowBandHints
          /\ (300 <= avg /\ avg < 600) => strategies = MidBandHints
          /\ avg >= 600 => strategies = HighBandHints
          /\ Cardinality({LowBandHints, MidBandHints, HighBandHints}) = 3
          /\ Len(strategies) = 2
          /\ \A other \in SuggestionInputs :
                other.average_similarity = avg =>
                   suggest_convergence_strategies(other) = strategies

\* the hints have been asked for an average at the lower limit of the middle
\* band, on an analysis that reports consensus
C30_Witness ==
    /\ engine_call.suggested
    /\ engine_call.suggestion.analysis.average_similarity = 300
    /\ engine_call.suggestion.analysis.consensus_reached
    /\ engine_call.suggestion.strategies = MidBandHints

\* C31: in the result returned by a run in which every inference call
\* succeeded, each round record carries a consensus analysis, every round
\* record but the last carries orchestrator feedback, and the last carries none.
C31_RoundRecordsAnalysedAndFedBack ==
    (pc = "returned" /\ inference_failed = {}) =>
        \A i \in 1..Len(result.rounds) :
            /\ result.rounds[i].consensus_analysis # NoAnalysis
            /\ (i < Len(result.rounds)) <=> (result.rounds[i].orchestrator_feedback # NoFeedback)

\* a run without a failed call has returned three round records
C31_Witness ==
    /\ pc = "returned"
    /\ inference_failed = {}
    /\ Len(result.rounds) = 3
    /\ result.rounds[2].orchestrator_feedback # NoFeedback
    /\ result.rounds[3].orchestrator_feedback = NoFeedback

C33_FlagMatchesFinalStatus ==
    (pc = "returned") =>
        (result.consensus_reached <=> (result.final_status = CONSENSUS_REACHED))

\* the prompts of the debater calls in flight quote data of the current run only
PromptsOfCurrentRun ==
    \A d \in Debaters :
        call_tasks[d].st = "pending" =>
            /\ call_tasks[d].prompt.context \subseteq {runs_started}
            /\ call_tasks[d].prompt.previous.run \in {0, runs_started}

\* C34: runs made one after another on the same workflow do not leak state:
\* the initialize step of every run leaves an empty context that every debater
\* and the orchestrator refer to, and every prompt built in a run (context
\* content and previous response) holds data of that run only, also when a
\* debater call failed in this or an earlier run.
C34_NoLeakBetweenRuns ==
    /\ []PromptsOfCurrentRun
    /\ [][(call_pc = "initialize_debate" /\ call_pc' # call_pc) =>
            /\ \A a \in Agents : agent_mcp_context'[a] = runs_started
            /\ contexts'[runs_started] = NoContextData]_vars

\* C35: in the job tracker of api/main.py a job whose run returned final_status
\* Failed is reported with job status "failed", and "completed" is reported
\* only for runs that ended ConsensusReached or MaxRoundsExceeded.
C35_FailedRunReportedFailed ==
    \A j \in DebateIds :
        /\ (debate_outcome[j] = ERROR) => (current_debates[j].status = "failed")
        /\ (current_debates[j].status = "completed") =>
              (debate_outcome[j] \in {CONSENSUS_REACHED, MAX_ROUNDS_EXCEEDED})

\* the moves of a job's status: starting, running, then completed or failed
StatusMoves ==
    {<<"absent", "starting">>, <<"starting", "running">>,
     <<"running", "completed">>, <<"running", "failed">>}

\* C36: a job's status only moves starting -> running -> completed or failed
\* and never changes afterwards; its progress is 1.0 exactly when the status is
\* completed and at most 0.9 while running; and the progress task writes
\* nothing to a job whose status has left running, however the progress task
\* and the debate task interleave (the 5-minute timeout included).
C36_JobStatusAndProgress ==
    /\ [](\A j \in DebateIds :
            /\ (current_debates[j].progress = 100) <=> (current_debates[j].status = "completed")
            /\ (current_debates[j].status = "running") => (current_debates[j].progress <= 90)
            /\ ~late_write[j])
    /\ [][\A j \in DebateIds :
            (current_debates'[j].status # current_debates[j].status) =>
                (<<current_debates[j].status, current_debates'[j].status>> \in StatusMoves)]_vars

\* one job has completed and another has timed out, the progress task of
\* each cancelled before the status was written
C36_Witness ==
    \E j, k \in DebateIds :
        /\ current_debates[j].status = "completed"
        /\ progress_task[j] = "cancelled"
        /\ debate_outcome[k] = "timeout"
        /\ current_debates[k].status = "failed"
        /\ current_debates[k].progress = 0
        /\ progress_task[k] = "cancelled"

\* a get_debate_status request answered in this step about an id that
\* start_debate returned and no delete_debate removed
StatusAnswered(debate_id) ==
    /\ background_pc[debate_id] # "none"
    /\ debate_id \notin deleted
    /\ http_response' # http_response
    /\ http_response'.request = "get_debate_status"
    /\ http_response'.id = debate_id

\* C37: every debate id returned by start_debate of api.py, once its
\* background run is over, is out of the in-progress queue and retrievable
\* with the terminal status of its run; get_debate_status never answers 404
\* for a started id; an id is never in the queue and in the completed map at
\* the same time
C37_StartedDebateRetrievable ==
    /\ [](\A debate_id \in DebateIds :
            /\ (background_pc[debate_id] = "done") =>
                 /\ ~in_queue(debate_id)
                 /\ debate_id \in deleted \/ active_debates[debate_id] \in TerminalStatus
            /\ ~(in_queue(debate_id) /\ active_debates[debate_id] # "absent"))
    /\ [][\A debate_id \in DebateIds :
            StatusAnswered(debate_id) => http_response'.status_code # 404]_vars

\* a start_debate request with an empty or whitespace-only question answered
\* in this step
BlankQuestionAnswered ==
    /\ http_response' # http_response
    /\ http_response'.request = "start_debate"
    /\ strip(http_response'.question) = <<>>

\* C38: start_debate of api.py answers an empty or whitespace-only question
\* with status 400 "Question cannot be empty", and leaves the in-progress
\* queue, the completed map and the background runs as they were
C38_BlankQuestionRejected ==
    [][BlankQuestionAnswered =>
          /\ http_response'.status_code = 400
          /\ http_response'.detail = "Question cannot be empty"
          /\ UNCHANGED <<debate_queue, active_debates, background_pc>>]_vars
====
